---- MODULE Spec2Model ----
(***************************************************************************)
(* Verification model of the remote-access orchestration layer of          *)
(* notion-task-runner: the cursor-paginated fetch (NotionDatabase), the    *)
(* retried client calls (AsyncNotionClient), the export trigger, poller and *)
(* downloader (ExportFileTrigger, ExportFilePoller, ExportFileDownloader), *)
(* the export task that calls them (ExportFileTask), the construction of   *)
(* the singleton client, its lazily created session and its close(), and   *)
(* the task scheduler (TaskRunner).                                        *)
(*                                                                         *)
(* Each component has its own specification over the shared variables.     *)
(* In a component's specification the other components are "off": their    *)
(* variables keep their initial values.                                    *)
(***************************************************************************)
EXTENDS Integers, Sequences, FiniteSets, TLC

VARIABLES
    \* ---- NotionDatabase.fetch_rows ----
    database_id,    \* argument of fetch_rows: "NONE" (None), "" or an id
    max_retries,    \* NotionDatabase.max_retries (constructor argument)
    script,         \* the page responses the server will answer with, in order
    pos,            \* number of responses the server has answered so far
    fpc,            \* position of fetch_rows
    all_results,    \* accumulator of fetch_rows
    next_cursor,    \* local next_cursor of fetch_rows
    payload,        \* start_cursor of the last payload built ("NONE": empty payload)
    outerAttempt,   \* attempt number of _retry_fetch_rows._do_request
    innerAttempt,   \* attempt number of AsyncNotionClient.post
    ferror,         \* exception fetch_rows ended with
    queries,        \* number of _retry_fetch_rows calls (query requests)
    httpPosts,      \* number of HTTP POSTs sent to the query endpoint
    \* ---- ExportFilePoller.poll_for_download_url ----
    ppc,            \* position of poll_for_download_url
    trigger,        \* argument export_trigger_timestamp
    pollMax,        \* ExportFilePoller max_retries (constructor argument)
    pscript,        \* the notification responses the server will answer with
    ppos,           \* number of notification responses answered so far
    pAttempt,       \* attempt number of _poll (one _try_get_download_url each)
    pInner,         \* attempt number of AsyncNotionClient.post inside it
    pollCalls,      \* number of client.post status-check calls made
    pollRaised,     \* how many of them raised (no response after the retries)
    lastClass,      \* outcome of the last attempt
    presult,        \* the link poll_for_download_url returned
    \* ---- AsyncNotionClient session, used by concurrent callers ----
    session,        \* self._session: "none", "open" or "closed"
    headersSet,     \* the session carries the headers derived by the handshake
    config,         \* self.config: "set" or "none" (cleared by close)
    handshakes,     \* number of loadUserContent calls issued
    handshakeFailed,\* some handshake has failed
    cpc,            \* position of each caller's request
    cAttempt,       \* attempt number of each caller's request
    reqAuth,        \* were the headers set when the caller's request was sent
    reqGen,         \* the session (numbered by handshakes) the request was sent on
    connector,      \* self._connector: "none", "open" or "closed"
    kpc,            \* position of a close() call made by the client's user
    closes,         \* number of such close() calls that have completed
    \* ---- TaskRunner ----
    rpc,            \* position of TaskRunner.run / run_async
    mode,           \* "run" (thread pool) or "run_async" (asyncio.gather)
    behaviour,      \* how each task's run ends: "ok", "Exception", "SystemExit"
    tstate,         \* state of each task's run
    invoked,        \* number of times run was invoked on each task
    collected,      \* number of outcomes the final loop has looked at
    successful_tasks,
    failed_tasks,
    rerror,         \* exception the runner call ended with
    connectivity,   \* what config.validate_notion_connectivity() does
    \* ---- ExportFileDownloader ----
    dpc,            \* position of download_and_verify
    dMax,           \* ExportFileDownloader.max_retries
    dAttempt,       \* attempt number of _do_download
    dInner,         \* attempt number of AsyncNotionClient.get inside it
    getCalls,       \* number of client.get calls made
    body,           \* number of chunks of the response body
    written,        \* number of chunks written to the destination file
    file,           \* destination path: "absent" or "file"
    dresult,        \* what download_and_verify returned: "none", "None", "path"
    \* ---- one AsyncNotionClient request made directly ----
    mpc,            \* position of the request
    method,         \* "post", "get", "patch" or "delete"
    mAttempt,       \* attempt number
    mSent,          \* HTTP requests sent
    mresult,        \* "none", "response", "RetryError"
    mresponse,      \* the response the last attempt received (NoHttpResponse: none)
    \* ---- ExportFileTrigger.trigger_export_task ----
    tpc,            \* position of trigger_export_task
    tMax,           \* ExportFileTrigger.max_retries
    tAttempt,       \* attempt number of _do_trigger
    tInner,         \* attempt number of AsyncNotionClient.post inside it
    enqueueCalls,   \* number of client.post calls to the enqueue endpoint
    enqueueRaised,  \* how many of them raised (no response after the retries)
    enqueuePosts,   \* number of HTTP POSTs sent to the enqueue endpoint
    tresponse,      \* the enqueue response received, "none" before
    tresult,        \* what trigger_export_task returned; "none" before
    \* ---- ExportFileTask.run ----
    epc,            \* position of run
    export_type,    \* config.export_type
    flatten_export_file_tree,   \* config.flatten_export_file_tree
    export_trigger_timestamp,   \* local of run, 0 before line 48
    task_id,        \* local of run
    download_url,   \* local of run
    file_name,      \* local of run
    downloaded_file,\* local of run
    eresult,        \* what run returned: "none" before, "None" or "path"
    \* ---- AsyncNotionClient construction (singleton) ----
    instance,       \* cls._instance: 0 (None) or the number of the object
    created,        \* number of AsyncNotionClient objects created
    initialized,    \* cls._initialized
    lock,           \* cls._lock: 0 (free) or the thread holding it
    npc,            \* position of each thread's AsyncNotionClient(config) call
    arg,            \* the config each thread passes
    ret,            \* the object each thread's __new__ returned, 0 before
    verdict,        \* what _validate_config did in each thread's __init__
    self_config,    \* self.config of the instance (Unset: no such attribute)
    self_session,   \* self._session: "unset" (no attribute), "None", "open"
    used,           \* outcome of the request each thread made on the instance
    sentWith,       \* the configs whose credentials went out on the network
    \* ---- ExportFilePoller: one attempt on a whole activity map ----
    activity_map,   \* recordMap.activity of the response, in order
    trigger_ts,     \* export_trigger_timestamp of the attempt
    apc,            \* position of _try_get_download_url
    attempt_outcome, \* what the attempt raised or returned
    \* ---- NotionPageUpdateTask.run ----
    upc,            \* position of run
    rows,           \* local of run: what fetch_rows returned
    total_value,    \* local of run, -1 before line 110
    uAttempt,       \* attempt number of _make_notion_request
    patches,        \* client.patch calls that sent a PATCH
    patched_value,  \* the total the block was last updated with, -1: none
    uerror,         \* class of the exception run raised
    \* ---- ExportFileWatcher.wait_for_file and GoogleDriveUploadTask.run ----
    wpc,            \* position of GoogleDriveUploadTask.run / wait_for_file
    prefix,         \* argument of wait_for_file
    timeout_seconds, \* argument of wait_for_file
    interval,       \* argument of wait_for_file
    elapsed,        \* local of wait_for_file
    checks,         \* number of directory.glob calls made
    directory,      \* names of the files put in the directory by others
    wresult,        \* the path wait_for_file returned, <<>> before
    handover,       \* state of the returned file when wait_for_file returned
    uploading,      \* state of the file when the upload started
    \* ---- HTTPClientMixin._make_parallel_requests ----
    gpc,            \* position of _make_parallel_requests
    max_concurrent, \* argument of _make_parallel_requests
    semaphore,      \* value of the asyncio.Semaphore
    qpc,            \* position of each _make_request coroutine
    qAttempt,       \* attempt number of each _make_notion_request
    responses,      \* what each _make_request returned, "none" before
    completed,      \* the requests in the order they finished
    gresult         \* the list _make_parallel_requests returned

fetchVars == <<database_id, max_retries, script, pos, fpc, all_results,
               next_cursor, payload, outerAttempt, innerAttempt, ferror,
               queries, httpPosts>>
pollVars == <<ppc, trigger, pollMax, pscript, ppos, pAttempt, pInner,
              pollCalls, pollRaised, lastClass, presult>>
sessVars == <<session, headersSet, config, handshakes, handshakeFailed,
              cpc, cAttempt, reqAuth, reqGen, connector, kpc, closes>>
runVars == <<rpc, mode, behaviour, tstate, invoked, collected,
             successful_tasks, failed_tasks, rerror, connectivity>>
dlVars == <<dpc, dMax, dAttempt, dInner, getCalls, body, written, file, dresult>>
reqVars == <<mpc, method, mAttempt, mSent, mresult, mresponse>>
trigVars == <<tpc, tMax, tAttempt, tInner, enqueueCalls, enqueueRaised,
              enqueuePosts, tresponse, tresult>>
expVars == <<epc, export_type, flatten_export_file_tree,
             export_trigger_timestamp, task_id, download_url, file_name,
             downloaded_file, eresult>>

consVars == <<instance, created, initialized, lock, npc, arg, ret, verdict,
              self_config, self_session, used, sentWith>>

actVars == <<activity_map, trigger_ts, apc, attempt_outcome>>

pageVars == <<upc, rows, total_value, uAttempt, patches, patched_value,
    uerror>>

watchVars == <<wpc, prefix, timeout_seconds, interval, elapsed, checks,
    directory, wresult, handover, uploading>>

parVars == <<gpc, max_concurrent, semaphore, qpc, qAttempt, responses,
    completed, gresult>>

vars == <<fetchVars, pollVars, sessVars, runVars, dlVars, reqVars, trigVars,
    expVars, consVars, actVars, pageVars, watchVars, parVars>>

notFetch == <<consVars, pollVars, sessVars, runVars, dlVars, reqVars,
    trigVars, expVars, actVars, pageVars, watchVars, parVars>>
notPoll == <<consVars, fetchVars, sessVars, runVars, dlVars, reqVars,
    trigVars, expVars, actVars, pageVars, watchVars, parVars>>
notSess == <<consVars, fetchVars, pollVars, runVars, dlVars, reqVars,
    trigVars, expVars, actVars, pageVars, watchVars, parVars>>
notRun == <<consVars, fetchVars, pollVars, sessVars, dlVars, reqVars,
    trigVars, expVars, actVars, pageVars, watchVars, parVars>>
notDl == <<consVars, fetchVars, pollVars, sessVars, runVars, reqVars,
    trigVars, expVars, actVars, pageVars, watchVars, parVars>>
notReq == <<consVars, fetchVars, pollVars, sessVars, runVars, dlVars,
    trigVars, expVars, actVars, pageVars, watchVars, parVars>>
notTrig == <<consVars, fetchVars, pollVars, sessVars, runVars, dlVars,
    reqVars, expVars, actVars, pageVars, watchVars, parVars>>
notExp == <<consVars, fetchVars, pollVars, sessVars, runVars, dlVars, reqVars,
    trigVars, actVars, pageVars, watchVars, parVars>>
notCons == <<fetchVars, pollVars, sessVars, runVars, dlVars, reqVars,
    trigVars, expVars, actVars, pageVars, watchVars, parVars>>
notAct == <<fetchVars, pollVars, sessVars, runVars, dlVars, reqVars, trigVars,
    expVars, consVars, pageVars, watchVars, parVars>>
notPage == <<fetchVars, pollVars, sessVars, runVars, dlVars, reqVars,
    trigVars, expVars, consVars, actVars, watchVars, parVars>>
notWatch == <<fetchVars, pollVars, sessVars, runVars, dlVars, reqVars,
    trigVars, expVars, consVars, actVars, pageVars, parVars>>
notPar == <<fetchVars, pollVars, sessVars, runVars, dlVars, reqVars, trigVars,
    expVars, consVars, actVars, pageVars, watchVars>>

(***************************************************************************)
(* Bounds of the model.                                                    *)
(***************************************************************************)
MaxPages == 2          \* pages in a server script
MaxRetriesBound == 2   \* largest max_retries given to a constructor
MaxPolls == 3          \* responses in a notification script
NumCallers == 2        \* concurrent callers of the client
MaxCloses == 2         \* close() calls made by the client's user
NumThreads == 2        \* threads constructing the client concurrently
NumTasks == 3          \* tasks given to the TaskRunner
MaxChunks == 2         \* chunks of a download body
MaxClock == 4          \* readings of the clock
MaxEntries == 2        \* entries of a notification activity map
MaxTimeout == 3        \* largest timeout_seconds given to wait_for_file
MaxInterval == 2       \* largest interval given to wait_for_file
NumRequests == 3       \* requests given to _make_parallel_requests
MaxConcurrent == 2     \* largest max_concurrent

(***************************************************************************)
(* Program constants.                                                      *)
(***************************************************************************)
DEFAULT_MAX_RETRIES == 3
\* ExportFilePoller.DEFAULT_MAX_RETRIES
POLLER_DEFAULT_MAX_RETRIES == 500
\* default of ExportFileTrigger.__init__'s max_retries
TRIGGER_DEFAULT_MAX_RETRIES == 3
\* _validate_config: the least length of a credential
MIN_CREDENTIAL_LENGTH == 10

(***************************************************************************)
(* Python values.  None is "NONE"; a key missing from a JSON object is     *)
(* "ABSENT"; a JSON null is "NULL".                                        *)
(***************************************************************************)
\* dict.get(key): a missing key and a JSON null both read as None
DictGet_missing_kept(v) == IF v = "NULL" THEN "NONE" ELSE v

DictGet(v) == IF v \in {"ABSENT", "NULL"} THEN "NONE" ELSE v

\* Python truthiness of an optional string: None and "" are falsy
Truthy(v) == v # "NONE" /\ v # ""

\* tenacity stop_after_attempt(n): stop once attempt_number >= n
StopAfterAttempt_off_by_one(attempt, n) == attempt > n

StopAfterAttempt(attempt, n) == attempt >= n

RECURSIVE SeqsUpTo(_, _)
SeqsUpTo(S, n) ==
    IF n = 0 THEN {<<>>}
    ELSE LET shorter == SeqsUpTo(S, n - 1)
         IN  shorter \cup {Append(s, x) : s \in {t \in shorter : Len(t) = n - 1}, x \in S}

(***************************************************************************)
(* NotionDatabase.fetch_rows                                               *)
(*                                                                         *)
(* Query responses are JSON objects with optional status/message (the      *)
(* error envelope), optional results and optional next_cursor.             *)
(***************************************************************************)
Cursors == {"ABSENT", "NULL", "", "c1", "c2"}
Batches == {<<>>, <<1>>, <<2, 1>>}

Page(hs, st, hm, hr, rs, cur) ==
    [hasStatus |-> hs, status |-> st, hasMessage |-> hm,
     hasResults |-> hr, results |-> rs, cursor |-> cur]

Responses ==
    \* ordinary pages
    {Page(FALSE, 200, FALSE, TRUE, rs, cur) : rs \in Batches, cur \in Cursors}
    \* pages that state status 200 explicitly
    \cup {Page(TRUE, 200, FALSE, TRUE, <<1>>, cur) : cur \in {"NULL", "c1"}}
    \* responses without results
    \cup {Page(hs, 200, FALSE, FALSE, <<>>, cur) :
            hs \in BOOLEAN, cur \in {"ABSENT", "c1"}}
    \* error envelopes, with and without a message
    \cup {Page(TRUE, 400, hm, FALSE, <<>>, "ABSENT") : hm \in BOOLEAN}

Scripts == SeqsUpTo(Responses, MaxPages) \ {<<>>}

\* NotionDatabase._build_payload
build_payload_first_page(cursor) == "NONE"
build_payload(cursor) == IF Truthy(cursor) THEN cursor ELSE "NONE"

\* fetch_rows line 53: "if not database_id"
missing_id_none_only(id) == id = "NONE"

missing_id(id) == ~Truthy(id)

\* fetch_rows line 66: data.get("status", 200) != 200
error_envelope(data) == (IF data.hasStatus THEN data.status ELSE 200) # 200

\* fetch_rows line 71: data["results"] raises KeyError when the key is missing
missing_results_defaulted(data) == FALSE

missing_results(data) == ~data.hasResults

\* fetch_rows line 72: all_results.extend(data["results"])
accumulate_overwrite(acc, data) == data.results

accumulate(acc, data) == acc \o data.results

\* fetch_rows lines 75-77: next_cursor = data.get("next_cursor"); stop if falsy
continues(data) == Truthy(DictGet(data.cursor))

\* fetch_rows lines 66-77: what one received response does to the call
process_page_retrying(data) ==
    IF error_envelope(data)
    THEN /\ fpc' = "raised"
         /\ ferror' = IF data.hasMessage THEN "ClientError" ELSE "KeyError"
         /\ UNCHANGED <<all_results, next_cursor>>
    ELSE IF missing_results(data)
    THEN /\ fpc' = "post_raised"
         /\ UNCHANGED <<ferror, all_results, next_cursor>>
    ELSE /\ all_results' = accumulate(all_results, data)
         /\ next_cursor' = DictGet(data.cursor)
         /\ fpc' = IF continues(data) THEN "loop" ELSE "returned"
         /\ UNCHANGED ferror

process_page(data) ==
    IF error_envelope(data)
    THEN /\ fpc' = "raised"
         /\ ferror' = IF data.hasMessage THEN "ClientError" ELSE "KeyError"
         /\ UNCHANGED <<all_results, next_cursor>>
    ELSE IF missing_results(data)
    THEN /\ fpc' = "raised"
         /\ ferror' = "KeyError"
         /\ UNCHANGED <<all_results, next_cursor>>
    ELSE /\ all_results' = accumulate(all_results, data)
         /\ next_cursor' = DictGet(data.cursor)
         /\ fpc' = IF continues(data) THEN "loop" ELSE "returned"
         /\ UNCHANGED ferror

FetchOff ==
    /\ database_id = "NONE"
    /\ max_retries = 1
    /\ script = <<>>
    /\ pos = 0
    /\ fpc = "off"
    /\ all_results = <<>>
    /\ next_cursor = "NONE"
    /\ payload = "NONE"
    /\ outerAttempt = 0
    /\ innerAttempt = 0
    /\ ferror = "none"
    /\ queries = 0
    /\ httpPosts = 0

\* NotionDatabase.__init__ and a server holding a script of responses
FetchStart ==
    /\ database_id = "NONE"
    /\ max_retries \in 1..MaxRetriesBound
    /\ script \in Scripts
    /\ pos = 0
    /\ fpc = "idle"
    /\ all_results = <<>>
    /\ next_cursor = "NONE"
    /\ payload = "NONE"
    /\ outerAttempt = 0
    /\ innerAttempt = 0
    /\ ferror = "none"
    /\ queries = 0
    /\ httpPosts = 0

\* fetch_rows, lines 53-60
fetch_rows ==
    /\ fpc = "idle"
    /\ \E id \in {"NONE", "", "db-1"} :
         /\ database_id' = id
         /\ IF missing_id(id)
            THEN fpc' = "raised" /\ ferror' = "ValueError"
            ELSE fpc' = "loop" /\ UNCHANGED ferror
    /\ all_results' = <<>>
    /\ next_cursor' = "NONE"
    /\ UNCHANGED <<max_retries, script, pos, payload, outerAttempt,
                   innerAttempt, queries, httpPosts>>
    /\ UNCHANGED notFetch

\* fetch_rows lines 63-64: build the payload, call _retry_fetch_rows, whose
\* first _do_request calls client.post, which starts its first attempt
retry_fetch_rows ==
    /\ fpc = "loop"
    /\ payload' = build_payload(next_cursor)
    /\ queries' = queries + 1
    /\ outerAttempt' = 1
    /\ innerAttempt' = 1
    /\ fpc' = "http"
    /\ UNCHANGED <<database_id, max_retries, script, pos, all_results,
                   next_cursor, ferror, httpPosts>>
    /\ UNCHANGED notFetch

\* AsyncNotionClient.post: the attempt succeeds and the JSON body comes back
\* through _retry_fetch_rows to fetch_rows, which processes it
post_ok ==
    /\ fpc = "http"
    /\ pos < Len(script)
    /\ pos' = pos + 1
    /\ httpPosts' = httpPosts + 1
    /\ process_page(script[pos + 1])
    /\ UNCHANGED <<database_id, max_retries, script, payload, outerAttempt,
                   innerAttempt, queries>>
    /\ UNCHANGED notFetch

\* AsyncNotionClient.post: the attempt raises, either before the POST was
\* sent (the session could not be created) or after it (transport error,
\* non-ok status); tenacity starts the next attempt or gives up
post_fail ==
    /\ fpc = "http"
    /\ \E sent \in BOOLEAN :
         httpPosts' = IF sent THEN httpPosts + 1 ELSE httpPosts
    /\ IF StopAfterAttempt(innerAttempt, DEFAULT_MAX_RETRIES)
       THEN fpc' = "post_raised" /\ UNCHANGED innerAttempt
       ELSE innerAttempt' = innerAttempt + 1 /\ UNCHANGED fpc
    /\ UNCHANGED <<database_id, max_retries, script, pos, all_results,
                   next_cursor, payload, outerAttempt, ferror, queries>>
    /\ UNCHANGED notFetch

\* _retry_fetch_rows._do_request raised (client.post gave up): tenacity
\* calls _do_request again or gives up, and fetch_rows raises
do_request_raised ==
    /\ fpc = "post_raised"
    /\ IF StopAfterAttempt(outerAttempt, max_retries)
       THEN /\ fpc' = "raised"
            /\ ferror' = "RetryError"
            /\ UNCHANGED <<outerAttempt, innerAttempt>>
       ELSE /\ outerAttempt' = outerAttempt + 1
            /\ innerAttempt' = 1
            /\ fpc' = "http"
            /\ UNCHANGED ferror
    /\ UNCHANGED <<database_id, max_retries, script, pos, all_results,
                   next_cursor, payload, queries, httpPosts>>
    /\ UNCHANGED notFetch

NextFetch ==
    \/ fetch_rows
    \/ retry_fetch_rows
    \/ post_ok
    \/ post_fail
    \/ do_request_raised

(***************************************************************************)
(* ExportFilePoller                                                        *)
(*                                                                         *)
(* A notification response has an optional activity map; only the first    *)
(* entry is read.  The entry has an optional value (the node); the node    *)
(* has an optional start_time (an integer, a numeric string or some other  *)
(* string) and optional edits, whose first element has an optional link.   *)
(***************************************************************************)
Notification(act, sk, st, ed, ln) ==
    [activity |-> act, stKind |-> sk, st |-> st, edits |-> ed, link |-> ln]

PollResponses ==
    {   \* no recordMap / no activity yet
        Notification("absent", "absent", 0, "absent", ""),
        \* first entry without "value"
        Notification("novalue", "absent", 0, "absent", ""),
        \* nodes with a link
        Notification("node", "int", 500, "link", "u1"),
        Notification("node", "int", 1000, "link", "u1"),
        Notification("node", "int", 1300, "link", "u2"),
        Notification("node", "str", 1300, "link", "u1"),
        \* nodes without a usable link
        Notification("node", "int", 1300, "nolink", ""),
        Notification("node", "int", 1300, "absent", ""),
        Notification("node", "int", 1300, "empty", ""),
        Notification("node", "int", 1300, "link", ""),
        Notification("node", "int", 500, "empty", ""),
        \* nodes without a usable start_time
        Notification("node", "absent", 0, "link", "u1"),
        Notification("node", "bad", 0, "link", "u1")
    }

PollScripts == SeqsUpTo(PollResponses, MaxPolls) \ {<<>>}

Triggers == {1000, 1300}

\* _get_export_link line 104: the staleness test
is_stale_inclusive(start_time, ts) == start_time <= ts

is_stale_reversed(start_time, ts) == start_time > ts

is_stale(start_time, ts) == start_time < ts

\* _get_export_link line 109-110: node.get("edits", [{}])[0].get("link"), falsy?
link_missing_ignored(r) == FALSE

link_missing(r) == r.edits \in {"nolink", "absent"} \/ r.link = ""

\* _extract_activity_node and _get_export_link: the outcome of one response
classify(r, ts) ==
    IF r.activity = "absent" THEN "NoActivityError"
    ELSE IF r.activity = "novalue" THEN "KeyError"
    ELSE IF r.stKind = "absent" THEN "KeyError"
    ELSE IF r.stKind = "bad" THEN "ValueError"
    ELSE IF is_stale(r.st, ts) THEN "StaleExportError"
    ELSE IF r.edits = "empty" THEN "IndexError"
    ELSE IF link_missing(r) THEN "MissingExportLinkError"
    ELSE "Found"

PollOff ==
    /\ ppc = "off"
    /\ trigger = 0
    /\ pollMax = 1
    /\ pscript = <<>>
    /\ ppos = 0
    /\ pAttempt = 0
    /\ pInner = 0
    /\ pollCalls = 0
    /\ pollRaised = 0
    /\ lastClass = "none"
    /\ presult = "NONE"

\* ExportFilePoller.__init__ and a server holding a script of notifications
PollStart ==
    /\ ppc = "idle"
    /\ trigger = 0
    /\ pollMax \in 1..(MaxRetriesBound + 1)
    /\ pscript \in PollScripts
    /\ ppos = 0
    /\ pAttempt = 0
    /\ pInner = 0
    /\ pollCalls = 0
    /\ pollRaised = 0
    /\ lastClass = "none"
    /\ presult = "NONE"

\* @retry without a retry= argument (lines 56-59): tenacity retries an
\* attempt that raised any Exception, whatever its class; only what is not
\* an Exception passes through
retry_if_named_only(cls) ==
    cls \in {"NoActivityError", "StaleExportError", "MissingExportLinkError",
             "MalformedResponseError"}

retry_if_exception_type(cls) ==
    cls \notin {"SystemExit", "KeyboardInterrupt", "CancelledError"}

\* a _poll attempt raised: tenacity starts the next attempt (one more
\* _try_get_download_url, so one more client.post) or gives up and raises
\* RetryError, which holds the last attempt and its exception
poll_retry_first_kept(cls) ==
    /\ lastClass' = IF lastClass = "none" THEN cls ELSE lastClass
    /\ IF ~retry_if_exception_type(cls) \/ StopAfterAttempt(pAttempt, pollMax)
       THEN /\ ppc' = "raised"
            /\ UNCHANGED <<pAttempt, pInner, pollCalls>>
       ELSE /\ ppc' = "http"
            /\ pAttempt' = pAttempt + 1
            /\ pInner' = 1
            /\ pollCalls' = pollCalls + 1

poll_retry(cls) ==
    /\ lastClass' = cls
    /\ IF ~retry_if_exception_type(cls) \/ StopAfterAttempt(pAttempt, pollMax)
       THEN /\ ppc' = "raised"
            /\ UNCHANGED <<pAttempt, pInner, pollCalls>>
       ELSE /\ ppc' = "http"
            /\ pAttempt' = pAttempt + 1
            /\ pInner' = 1
            /\ pollCalls' = pollCalls + 1

\* poll_for_download_url: the first _poll attempt calls client.post
poll_for_download_url ==
    /\ ppc = "idle"
    /\ \E ts \in Triggers : trigger' = ts
    /\ ppc' = "http"
    /\ pAttempt' = 1
    /\ pInner' = 1
    /\ pollCalls' = 1
    /\ UNCHANGED <<pollMax, pscript, ppos, pollRaised, lastClass, presult>>
    /\ UNCHANGED notPoll

\* client.post returns a notification response; _try_get_download_url
\* returns its link or raises
poll_response ==
    /\ ppc = "http"
    /\ ppos < Len(pscript)
    /\ ppos' = ppos + 1
    /\ LET r == pscript[ppos + 1]
           cls == classify(r, trigger)
       IN  IF cls = "Found"
           THEN /\ ppc' = "returned"
                /\ presult' = r.link
                /\ lastClass' = cls
                /\ UNCHANGED <<pAttempt, pInner, pollCalls>>
           ELSE /\ poll_retry(cls)
                /\ UNCHANGED presult
    /\ UNCHANGED <<trigger, pollMax, pscript, pollRaised>>
    /\ UNCHANGED notPoll

\* an attempt of client.post raises: tenacity retries the POST, or client.post
\* gives up and the _poll attempt raises
poll_post_fail ==
    /\ ppc = "http"
    /\ IF StopAfterAttempt(pInner, DEFAULT_MAX_RETRIES)
       THEN /\ pollRaised' = pollRaised + 1
            /\ poll_retry("RetryError")
       ELSE /\ pInner' = pInner + 1
            /\ UNCHANGED <<ppc, pAttempt, pollCalls, pollRaised, lastClass>>
    /\ UNCHANGED <<trigger, pollMax, pscript, ppos, presult>>
    /\ UNCHANGED notPoll

NextPoll ==
    \/ poll_for_download_url
    \/ poll_response
    \/ poll_post_fail

(***************************************************************************)
(* AsyncNotionClient: the shared session under concurrent callers.         *)
(*                                                                         *)
(* Each caller makes one request (post/get/patch/delete) on the singleton  *)
(* client from its own coroutine.  A step is what a coroutine does between *)
(* two suspensions (an HTTP exchange or a sleep).                          *)
(***************************************************************************)
Callers == 1..NumCallers

SessOff ==
    /\ session = "none"
    /\ headersSet = FALSE
    /\ config = "set"
    /\ handshakes = 0
    /\ handshakeFailed = FALSE
    /\ cpc = [c \in Callers |-> "off"]
    /\ cAttempt = [c \in Callers |-> 0]
    /\ reqAuth = [c \in Callers |-> FALSE]
    /\ reqGen = [c \in Callers |-> 0]
    /\ connector = "none"
    /\ kpc = "off"
    /\ closes = 0

\* AsyncNotionClient.__init__: no session yet
SessStart ==
    /\ session = "none"
    /\ headersSet = FALSE
    /\ config = "set"
    /\ handshakes = 0
    /\ handshakeFailed = FALSE
    /\ cpc = [c \in Callers |-> "idle"]
    /\ cAttempt = [c \in Callers |-> 1]
    /\ reqAuth = [c \in Callers |-> FALSE]
    /\ reqGen = [c \in Callers |-> 0]
    /\ connector = "none"
    /\ kpc = "off"
    /\ closes = 0

\* AsyncNotionClient.__init__: no session yet; the client's user makes
\* requests and calls close() between them
LifeStart ==
    /\ session = "none"
    /\ headersSet = FALSE
    /\ config = "set"
    /\ handshakes = 0
    /\ handshakeFailed = FALSE
    /\ cpc = [c \in Callers |-> "idle"]
    /\ cAttempt = [c \in Callers |-> 1]
    /\ reqAuth = [c \in Callers |-> FALSE]
    /\ reqGen = [c \in Callers |-> 0]
    /\ connector = "none"
    /\ kpc = "idle"
    /\ closes = 0

\* _ensure_session line 78: is a new session needed
needs_session_always == TRUE

needs_session == session \in {"none", "closed"}

\* close lines 230-231: an open session is closed, anything else is left
session_after_close_reset(s) ==
    IF s = "open" THEN "closed" ELSE "none"
session_after_close(s) ==
    IF s = "open" THEN "closed" ELSE s

\* close lines 233-234: a connector that exists is closed (closing a closed
\* connector does nothing)
connector_after_close(k) ==
    IF k = "none" THEN "none" ELSE "closed"

\* close lines 240-241: the config attribute exists and is set to None
config_after_close(cfg) == "none"

\* tenacity after a failed attempt of a client method: wait and run the
\* method again, or give up
client_retry(c) ==
    IF StopAfterAttempt(cAttempt[c], DEFAULT_MAX_RETRIES)
    THEN cpc' = [cpc EXCEPT ![c] = "raised"] /\ UNCHANGED cAttempt
    ELSE /\ cpc' = [cpc EXCEPT ![c] = "wait"]
         /\ cAttempt' = [cAttempt EXCEPT ![c] = cAttempt[c] + 1]

\* an attempt of post/get/patch/delete starts: _ensure_session, then either
\* _create_authenticated_session up to the loadUserContent POST (lines
\* 88-118), or the caller's own request is sent on the live session
attempt_start(c) ==
    /\ cpc[c] \in {"idle", "wait"}
    /\ IF needs_session
       THEN IF config = "none"
            THEN \* the connector is made (line 90), line 104 raises
                 \* AttributeError on None, and close() runs up to its sleep
                 /\ cpc' = [cpc EXCEPT ![c] = "nocreds"]
                 /\ session' = session_after_close(session)
                 /\ connector' = connector_after_close("open")
                 /\ UNCHANGED <<headersSet, handshakes, reqAuth, reqGen>>
            ELSE /\ session' = "open"
                 /\ connector' = "open"
                 /\ headersSet' = FALSE
                 /\ handshakes' = handshakes + 1
                 /\ cpc' = [cpc EXCEPT ![c] = "handshake"]
                 /\ UNCHANGED <<reqAuth, reqGen>>
       ELSE /\ cpc' = [cpc EXCEPT ![c] = "request"]
            /\ reqAuth' = [reqAuth EXCEPT ![c] = headersSet]
            /\ reqGen' = [reqGen EXCEPT ![c] = handshakes]
            /\ UNCHANGED <<session, connector, headersSet, handshakes>>
    /\ UNCHANGED <<config, handshakeFailed, cAttempt, kpc, closes>>
    /\ UNCHANGED notSess

\* the loadUserContent response arrives and is well formed (lines 119-127);
\* the caller's own request is sent next
handshake_ok(c) ==
    /\ cpc[c] = "handshake"
    /\ session = "open"
    /\ headersSet' = TRUE
    /\ cpc' = [cpc EXCEPT ![c] = "request"]
    /\ reqAuth' = [reqAuth EXCEPT ![c] = TRUE]
    /\ reqGen' = [reqGen EXCEPT ![c] = handshakes]
    /\ UNCHANGED <<session, config, handshakes, handshakeFailed, cAttempt,
                   connector, kpc, closes>>
    /\ UNCHANGED notSess

\* the handshake fails (HTTP error or malformed body): lines 129-131 call
\* close(), which closes session and connector and sleeps (lines 230-237)
handshake_fail(c) ==
    /\ cpc[c] = "handshake"
    /\ session' = session_after_close(session)
    /\ connector' = connector_after_close(connector)
    /\ handshakeFailed' = TRUE
    /\ cpc' = [cpc EXCEPT ![c] = "closing"]
    /\ UNCHANGED <<headersSet, config, handshakes, cAttempt, reqAuth, reqGen,
                   kpc, closes>>
    /\ UNCHANGED notSess

\* close() after its sleep clears the config (lines 240-241); line 132
\* re-raises and the attempt has failed ("nocreds": it was the
\* AttributeError of line 104 that close() was called for)
close_end(c) ==
    /\ cpc[c] \in {"closing", "nocreds"}
    /\ config' = config_after_close(config)
    /\ client_retry(c)
    /\ UNCHANGED <<session, headersSet, handshakes, handshakeFailed, reqAuth,
                   reqGen, connector, kpc, closes>>
    /\ UNCHANGED notSess

\* the caller's request is answered with an ok status
request_ok(c) ==
    /\ cpc[c] = "request"
    /\ session = "open"
    /\ reqGen[c] = handshakes
    /\ cpc' = [cpc EXCEPT ![c] = "done"]
    /\ UNCHANGED <<session, headersSet, config, handshakes, handshakeFailed,
                   cAttempt, reqAuth, reqGen, connector, kpc, closes>>
    /\ UNCHANGED notSess

\* the caller's request raises (transport error, session closed under it,
\* non-ok status)
request_fail(c) ==
    /\ cpc[c] = "request"
    /\ client_retry(c)
    /\ UNCHANGED <<session, headersSet, config, handshakes, handshakeFailed,
                   reqAuth, reqGen, connector, kpc, closes>>
    /\ UNCHANGED notSess

\* the client's user awaits close() while no request is in flight: lines
\* 230-237, up to the sleep
close ==
    /\ kpc = "idle"
    /\ \A c \in Callers : cpc[c] \in {"idle", "done", "raised"}
    /\ closes < MaxCloses
    /\ session' = session_after_close(session)
    /\ connector' = connector_after_close(connector)
    /\ kpc' = "sleeping"
    /\ UNCHANGED <<headersSet, config, handshakes, handshakeFailed, cpc,
                   cAttempt, reqAuth, reqGen, closes>>
    /\ UNCHANGED notSess

\* close() after its sleep: lines 240-243, the config is cleared and the
\* call returns
close_returns ==
    /\ kpc = "sleeping"
    /\ config' = config_after_close(config)
    /\ kpc' = "idle"
    /\ closes' = closes + 1
    /\ UNCHANGED <<session, headersSet, handshakes, handshakeFailed, cpc,
                   cAttempt, reqAuth, reqGen, connector>>
    /\ UNCHANGED notSess

NextSession ==
    \E c \in Callers :
        \/ attempt_start(c)
        \/ handshake_ok(c)
        \/ handshake_fail(c)
        \/ close_end(c)
        \/ request_ok(c)
        \/ request_fail(c)

NextLifecycle ==
    \/ \E c \in Callers :
        \/ attempt_start(c)
        \/ handshake_ok(c)
        \/ handshake_fail(c)
        \/ close_end(c)
        \/ request_ok(c)
        \/ request_fail(c)
    \/ close
    \/ close_returns

(***************************************************************************)
(* TaskRunner.run (thread pool, synchronous task bodies) and               *)
(* TaskRunner.run_async (asyncio.gather over coroutine task bodies).       *)
(***************************************************************************)
Tasks == 1..NumTasks

Outcomes == {"ok", "Exception", "SystemExit"}

RunOff ==
    /\ rpc = "off"
    /\ mode = "run"
    /\ behaviour = [t \in Tasks |-> "ok"]
    /\ tstate = [t \in Tasks |-> "new"]
    /\ invoked = [t \in Tasks |-> 0]
    /\ collected = 0
    /\ successful_tasks = 0
    /\ failed_tasks = 0
    /\ rerror = "none"
    /\ connectivity = "True"

\* TaskRunner(tasks, config) is about to be called, with tasks of any
\* behaviour and a config whose connectivity check returns True or False
\* or raises
RunStart ==
    /\ rpc = "new"
    /\ connectivity \in {"True", "False", "raises"}
    /\ mode \in {"run", "run_async"}
    /\ behaviour \in [Tasks -> Outcomes]
    /\ tstate = [t \in Tasks |-> "new"]
    /\ invoked = [t \in Tasks |-> 0]
    /\ collected = 0
    /\ successful_tasks = 0
    /\ failed_tasks = 0
    /\ rerror = "none"

\* __init__ line 49: "if not config.validate_notion_connectivity()"
connectivity_rejected_never(result) == FALSE
connectivity_rejected(result) == result # "True"

\* TaskRunner.__init__ lines 48-54: an exception of the connectivity check
\* propagates, a falsy result raises RuntimeError, else the runner is made
TaskRunner_init ==
    /\ rpc = "new"
    /\ IF connectivity = "raises"
       THEN rpc' = "init_raised" /\ rerror' = "Exception"
       ELSE IF connectivity_rejected(connectivity)
       THEN rpc' = "init_raised" /\ rerror' = "RuntimeError"
       ELSE rpc' = "idle" /\ UNCHANGED rerror
    /\ UNCHANGED <<connectivity, mode, behaviour, tstate, invoked, collected,
                   successful_tasks, failed_tasks>>
    /\ UNCHANGED notRun

\* "except Exception" (run, line 78) and isinstance(result, Exception)
\* (run_async, line 105): SystemExit is a BaseException, not an Exception
is_Exception(outcome) == outcome = "Exception"

\* run, line 65: the executor is entered
run ==
    /\ rpc = "idle"
    /\ mode = "run"
    /\ rpc' = "submitting"
    /\ UNCHANGED <<connectivity, mode, behaviour, tstate, invoked, collected,
                   successful_tasks, failed_tasks, rerror>>
    /\ UNCHANGED notRun

\* run, line 66: executor.submit(task.run), in list order
submit(t) ==
    /\ rpc = "submitting"
    /\ tstate[t] = "new"
    /\ \A u \in Tasks : u < t => tstate[u] # "new"
    /\ tstate' = [tstate EXCEPT ![t] = "queued"]
    /\ UNCHANGED <<connectivity, rpc, mode, behaviour, invoked, collected,
                   successful_tasks, failed_tasks, rerror>>
    /\ UNCHANGED notRun

\* a worker thread calls task.run
worker_start(t) ==
    /\ mode = "run"
    /\ tstate[t] = "queued"
    /\ tstate' = [tstate EXCEPT ![t] = "running"]
    /\ invoked' = [invoked EXCEPT ![t] = invoked[t] + 1]
    /\ UNCHANGED <<connectivity, rpc, mode, behaviour, collected, successful_tasks,
                   failed_tasks, rerror>>
    /\ UNCHANGED notRun

\* task.run returns or raises in the worker; the future stores the outcome
\* (the worker catches BaseException)
worker_finish(t) ==
    /\ mode = "run"
    /\ tstate[t] = "running"
    /\ tstate' = [tstate EXCEPT ![t] = "done"]
    /\ UNCHANGED <<connectivity, rpc, mode, behaviour, invoked, collected,
                   successful_tasks, failed_tasks, rerror>>
    /\ UNCHANGED notRun

\* run, line 67: concurrent.futures.wait(futures) returns
wait_returns ==
    /\ rpc = "submitting"
    /\ \A t \in Tasks : tstate[t] = "done"
    /\ rpc' = "collecting"
    /\ UNCHANGED <<connectivity, mode, behaviour, tstate, invoked, collected,
                   successful_tasks, failed_tasks, rerror>>
    /\ UNCHANGED notRun

\* run_async, lines 96-98: task.run() is called on every task, which
\* creates its coroutine; gather schedules them all and run_async suspends
run_async ==
    /\ rpc = "idle"
    /\ mode = "run_async"
    /\ rpc' = "gathering"
    /\ tstate' = [t \in Tasks |-> "scheduled"]
    /\ invoked' = [t \in Tasks |-> invoked[t] + 1]
    /\ UNCHANGED <<connectivity, mode, behaviour, collected, successful_tasks,
                   failed_tasks, rerror>>
    /\ UNCHANGED notRun

\* the event loop runs the first step of the tasks in the order gather
\* created them
first_step_due(t) ==
    tstate[t] = "scheduled" /\ \A u \in Tasks : u < t => tstate[u] # "scheduled"

\* the event loop runs a task's coroutine up to its first await
co_suspend(t) ==
    /\ rpc = "gathering"
    /\ first_step_due(t)
    /\ tstate' = [tstate EXCEPT ![t] = "suspended"]
    /\ UNCHANGED <<connectivity, rpc, mode, behaviour, invoked, collected,
                   successful_tasks, failed_tasks, rerror>>
    /\ UNCHANGED notRun

\* the event loop runs a task's coroutine to its end.  An Exception is
\* stored as the task's result; a SystemExit is re-raised by the task step
\* into the event loop, which stops: the run_async call never returns and
\* the unfinished tasks are cancelled
co_finish(t) ==
    /\ rpc = "gathering"
    /\ first_step_due(t) \/ tstate[t] = "suspended"
    /\ IF behaviour[t] = "SystemExit"
       THEN /\ rpc' = "raised"
            /\ rerror' = "SystemExit"
            /\ tstate' = [u \in Tasks |->
                    IF u = t THEN "done"
                    ELSE IF tstate[u] = "done" THEN "done" ELSE "cancelled"]
       ELSE /\ tstate' = [tstate EXCEPT ![t] = "done"]
            /\ UNCHANGED <<rpc, rerror>>
    /\ UNCHANGED <<connectivity, mode, behaviour, invoked, collected, successful_tasks,
                   failed_tasks>>
    /\ UNCHANGED notRun

\* run_async, line 96: gather's future completes with the list of results
gather_returns ==
    /\ rpc = "gathering"
    /\ \A t \in Tasks : tstate[t] = "done"
    /\ rpc' = "collecting"
    /\ UNCHANGED <<connectivity, mode, behaviour, tstate, invoked, collected,
                   successful_tasks, failed_tasks, rerror>>
    /\ UNCHANGED notRun

\* one iteration of the final loop (run lines 72-82, run_async lines
\* 103-112).  In run, future.result() re-raises the stored outcome and only
\* Exception is caught; in run_async only Exception instances count as
\* failures
collect ==
    /\ rpc = "collecting"
    /\ collected < NumTasks
    /\ LET outcome == behaviour[collected + 1]
       IN  IF is_Exception(outcome)
           THEN /\ failed_tasks' = failed_tasks + 1
                /\ collected' = collected + 1
                /\ UNCHANGED <<rpc, rerror, successful_tasks>>
           ELSE IF outcome = "ok" \/ mode = "run_async"
           THEN /\ successful_tasks' = successful_tasks + 1
                /\ collected' = collected + 1
                /\ UNCHANGED <<rpc, rerror, failed_tasks>>
           ELSE /\ rpc' = "raised"
                /\ rerror' = outcome
                /\ UNCHANGED <<collected, successful_tasks, failed_tasks>>
    /\ UNCHANGED <<connectivity, mode, behaviour, tstate, invoked>>
    /\ UNCHANGED notRun

\* the final loop is over: the summary is logged and the call returns
runner_returns ==
    /\ rpc = "collecting"
    /\ collected = NumTasks
    /\ rpc' = "returned"
    /\ UNCHANGED <<connectivity, mode, behaviour, tstate, invoked, collected,
                   successful_tasks, failed_tasks, rerror>>
    /\ UNCHANGED notRun

NextRunner ==
    \/ TaskRunner_init
    \/ run
    \/ \E t \in Tasks : submit(t)
    \/ \E t \in Tasks : worker_start(t)
    \/ \E t \in Tasks : worker_finish(t)
    \/ wait_returns
    \/ run_async
    \/ \E t \in Tasks : co_suspend(t)
    \/ \E t \in Tasks : co_finish(t)
    \/ gather_returns
    \/ collect
    \/ runner_returns

(***************************************************************************)
(* ExportFileDownloader                                                    *)
(***************************************************************************)
DlOff ==
    /\ dpc = "off"
    /\ dMax = 1
    /\ dAttempt = 0
    /\ dInner = 0
    /\ getCalls = 0
    /\ body = 0
    /\ written = 0
    /\ file = "absent"
    /\ dresult = "none"

\* ExportFileDownloader.__init__; the destination path does not exist yet
DlStart ==
    /\ dpc = "idle"
    /\ dMax \in 1..MaxRetriesBound
    /\ dAttempt = 0
    /\ dInner = 0
    /\ getCalls = 0
    /\ body = 0
    /\ written = 0
    /\ file = "absent"
    /\ dresult = "none"

\* _do_download raised: tenacity calls it again (one more client.get) or
\* gives up; then _download_file returns None (lines 58-60) and so does
\* download_and_verify (lines 36-38)
download_retry_raising ==
    IF StopAfterAttempt(dAttempt, dMax)
    THEN /\ dpc' = "raised"
         /\ UNCHANGED <<dresult, dAttempt, dInner, getCalls>>
    ELSE /\ dpc' = "get"
         /\ dAttempt' = dAttempt + 1
         /\ dInner' = 1
         /\ getCalls' = getCalls + 1
         /\ UNCHANGED dresult

download_retry ==
    IF StopAfterAttempt(dAttempt, dMax)
    THEN /\ dpc' = "returned"
         /\ dresult' = "None"
         /\ UNCHANGED <<dAttempt, dInner, getCalls>>
    ELSE /\ dpc' = "get"
         /\ dAttempt' = dAttempt + 1
         /\ dInner' = 1
         /\ getCalls' = getCalls + 1
         /\ UNCHANGED dresult

\* download_and_verify calls _download_file, whose first _do_download
\* calls client.get
download_and_verify ==
    /\ dpc = "idle"
    /\ dpc' = "get"
    /\ dAttempt' = 1
    /\ dInner' = 1
    /\ getCalls' = 1
    /\ UNCHANGED <<dMax, body, written, file, dresult>>
    /\ UNCHANGED notDl

\* an attempt of client.get raises: tenacity retries the GET, or client.get
\* gives up and _do_download raises
get_fail ==
    /\ dpc = "get"
    /\ IF StopAfterAttempt(dInner, DEFAULT_MAX_RETRIES)
       THEN download_retry
       ELSE /\ dInner' = dInner + 1
            /\ UNCHANGED <<dpc, dAttempt, getCalls, dresult>>
    /\ UNCHANGED <<dMax, body, written, file>>
    /\ UNCHANGED notDl

\* client.get returns the response; line 50 opens the destination for
\* writing, which creates or truncates it
get_ok ==
    /\ dpc = "get"
    /\ \E n \in 0..MaxChunks : body' = n
    /\ file' = "file"
    /\ written' = 0
    /\ dpc' = "stream"
    /\ UNCHANGED <<dMax, dAttempt, dInner, getCalls, dresult>>
    /\ UNCHANGED notDl

\* client.get returns the response but open() raises
open_fail ==
    /\ dpc = "get"
    /\ download_retry
    /\ UNCHANGED <<dMax, body, written, file>>
    /\ UNCHANGED notDl

\* lines 51-52: one chunk is read and written
stream_chunk ==
    /\ dpc = "stream"
    /\ written < body
    /\ written' = written + 1
    /\ UNCHANGED <<dpc, dMax, dAttempt, dInner, getCalls, body, file, dresult>>
    /\ UNCHANGED notDl

\* reading the next chunk raises; the file keeps what was written
stream_fail ==
    /\ dpc = "stream"
    /\ written < body
    /\ download_retry
    /\ UNCHANGED <<dMax, body, written, file>>
    /\ UNCHANGED notDl

\* the body is exhausted: _do_download returns the path, and
\* download_and_verify checks is_file() (lines 36-40)
stream_done ==
    /\ dpc = "stream"
    /\ written = body
    /\ dpc' = "returned"
    /\ dresult' = IF file = "file" THEN "path" ELSE "None"
    /\ UNCHANGED <<dMax, dAttempt, dInner, getCalls, body, written, file>>
    /\ UNCHANGED notDl

NextDownload ==
    \/ download_and_verify
    \/ get_fail
    \/ get_ok
    \/ open_fail
    \/ stream_chunk
    \/ stream_fail
    \/ stream_done

(***************************************************************************)
(* One request made directly on AsyncNotionClient (post, get, patch or     *)
(* delete: the four methods carry the same retry decorator).               *)
(***************************************************************************)
Methods == {"post", "get", "patch", "delete"}

\* an HTTP response as the client methods look at it: response.ok, and
\* whether its body is JSON (post returns response.json())
HttpResponses == [ok : BOOLEAN, is_json : BOOLEAN, received : {TRUE}]

NoHttpResponse == [ok |-> FALSE, is_json |-> FALSE, received |-> FALSE]

ReqOff ==
    /\ mpc = "off"
    /\ method = "post"
    /\ mAttempt = 0
    /\ mSent = 0
    /\ mresult = "none"
    /\ mresponse = NoHttpResponse

ReqStart ==
    /\ mpc = "idle"
    /\ method = "post"
    /\ mAttempt = 0
    /\ mSent = 0
    /\ mresult = "none"
    /\ mresponse = NoHttpResponse

\* tenacity after a failed attempt of the method: run it again, or give up
\* with RetryError
request_retry ==
    IF StopAfterAttempt(mAttempt, DEFAULT_MAX_RETRIES)
    THEN mpc' = "raised" /\ mresult' = "RetryError" /\ UNCHANGED mAttempt
    ELSE mAttempt' = mAttempt + 1 /\ UNCHANGED <<mpc, mresult>>

\* _handle_response_errors: raise_for_status() raises ClientResponseError
\* on a response that is not ok
handle_response_errors_lenient(response) == "none"
handle_response_errors(response) ==
    IF ~response.ok THEN "ClientResponseError" ELSE "none"

\* post/get/patch/delete is called: the first attempt starts
client_request ==
    /\ mpc = "idle"
    /\ \E m \in Methods : method' = m
    /\ mAttempt' = 1
    /\ mpc' = "http"
    /\ UNCHANGED <<mSent, mresult, mresponse>>
    /\ UNCHANGED notReq

\* the attempt gets a response: _handle_response_errors looks at it, then
\* post decodes its body and get, patch and delete return it as it is.
\* What is raised on the way fails the attempt
client_response ==
    /\ mpc = "http"
    /\ \E response \in HttpResponses :
        /\ mresponse' = response
        /\ IF handle_response_errors(response) # "none"
           THEN request_retry
           ELSE IF method = "post" /\ ~response.is_json
           THEN request_retry
           ELSE /\ mresult' = "response"
                /\ mpc' = "returned"
                /\ UNCHANGED mAttempt
    /\ mSent' = mSent + 1
    /\ UNCHANGED method
    /\ UNCHANGED notReq

\* the attempt raises without a response: before sending (no session) or
\* in transport
client_attempt_fail ==
    /\ mpc = "http"
    /\ \E sent \in BOOLEAN : mSent' = IF sent THEN mSent + 1 ELSE mSent
    /\ mresponse' = NoHttpResponse
    /\ request_retry
    /\ UNCHANGED method
    /\ UNCHANGED notReq

NextRequest ==
    \/ client_request
    \/ client_response
    \/ client_attempt_fail

(***************************************************************************)
(* ExportFileTrigger.trigger_export_task                                   *)
(*                                                                         *)
(* An enqueue response is a JSON object with an optional taskId (a string, *)
(* possibly empty, or null) and, in an error envelope, an optional name.   *)
(***************************************************************************)
Enqueue(tid, nm) == [taskId |-> tid, name |-> nm]

EnqueueResponses ==
    {Enqueue(tid, "ABSENT") : tid \in {"t1", "", "NULL"}}
    \cup {Enqueue("ABSENT", nm) : nm \in {"UnauthorizedError", "SomeError", "ABSENT"}}

\* no response received yet
NoResponse == Enqueue("none", "none")

\* line 52: "taskId" in response
has_task_id(response) == response.taskId # "ABSENT"

\* lines 52-60: what _do_trigger returns for a response; an envelope is
\* logged (two lines for UnauthorizedError) and None is returned
do_trigger_returns(response) ==
    IF ~has_task_id(response) THEN "NONE"
    ELSE IF response.taskId = "NULL" THEN "NONE"
    ELSE response.taskId

TrigOff ==
    /\ tpc = "off"
    /\ tMax = 1
    /\ tAttempt = 0
    /\ tInner = 0
    /\ enqueueCalls = 0
    /\ enqueueRaised = 0
    /\ enqueuePosts = 0
    /\ tresponse = NoResponse
    /\ tresult = "none"

\* ExportFileTrigger.__init__
TrigStart ==
    /\ tpc = "idle"
    /\ tMax \in 1..(MaxRetriesBound + 1)
    /\ tAttempt = 0
    /\ tInner = 0
    /\ enqueueCalls = 0
    /\ enqueueRaised = 0
    /\ enqueuePosts = 0
    /\ tresponse = NoResponse
    /\ tresult = "none"

\* a _do_trigger attempt raised: tenacity calls it again (one more
\* client.post) or gives up and, with reraise=True, raises what the attempt
\* raised
trigger_retry ==
    IF StopAfterAttempt(tAttempt, tMax)
    THEN /\ tpc' = "raised"
         /\ UNCHANGED <<tAttempt, tInner, enqueueCalls>>
    ELSE /\ tpc' = "http"
         /\ tAttempt' = tAttempt + 1
         /\ tInner' = 1
         /\ enqueueCalls' = enqueueCalls + 1

\* trigger_export_task: the first _do_trigger attempt calls client.post
trigger_export_task ==
    /\ tpc = "idle"
    /\ tpc' = "http"
    /\ tAttempt' = 1
    /\ tInner' = 1
    /\ enqueueCalls' = 1
    /\ UNCHANGED <<tMax, enqueueRaised, enqueuePosts, tresponse, tresult>>
    /\ UNCHANGED notTrig

\* client.post returns the enqueue response; _do_trigger returns the task
\* id or, for a response without taskId, None (lines 52-60)
enqueue_response_raising ==
    /\ tpc = "http"
    /\ enqueuePosts' = enqueuePosts + 1
    /\ \E r \in EnqueueResponses :
         /\ tresponse' = r
         /\ IF ~has_task_id(r) /\ r.name # "UnauthorizedError"
            THEN trigger_retry /\ UNCHANGED tresult
            ELSE /\ tresult' = do_trigger_returns(r)
                 /\ tpc' = "returned"
                 /\ UNCHANGED <<tAttempt, tInner, enqueueCalls>>
    /\ UNCHANGED <<tMax, enqueueRaised>>
    /\ UNCHANGED notTrig

enqueue_response ==
    /\ tpc = "http"
    /\ enqueuePosts' = enqueuePosts + 1
    /\ \E r \in EnqueueResponses :
         /\ tresponse' = r
         /\ tresult' = do_trigger_returns(r)
    /\ tpc' = "returned"
    /\ UNCHANGED <<tMax, tAttempt, tInner, enqueueCalls, enqueueRaised>>
    /\ UNCHANGED notTrig

\* an attempt of client.post raises, before or after the POST was sent:
\* tenacity retries the POST, or client.post gives up and _do_trigger raises
enqueue_post_fail ==
    /\ tpc = "http"
    /\ \E sent \in BOOLEAN :
         enqueuePosts' = IF sent THEN enqueuePosts + 1 ELSE enqueuePosts
    /\ IF StopAfterAttempt(tInner, DEFAULT_MAX_RETRIES)
       THEN /\ enqueueRaised' = enqueueRaised + 1
            /\ trigger_retry
       ELSE /\ tInner' = tInner + 1
            /\ UNCHANGED <<tpc, tAttempt, enqueueCalls, enqueueRaised>>
    /\ UNCHANGED <<tMax, tresponse, tresult>>
    /\ UNCHANGED notTrig

NextTrigger ==
    \/ trigger_export_task
    \/ enqueue_response
    \/ enqueue_post_fail

(***************************************************************************)
(* ExportFileTask.run                                                      *)
(*                                                                         *)
(* run is a plain function (def, line 46) and contains no await, while     *)
(* trigger_export_task, poll_for_download_url and download_and_verify are  *)
(* coroutine functions (async def).  Calling a coroutine function returns  *)
(* a coroutine object and runs none of its body; nothing in run awaits or  *)
(* schedules the object.  A local of run is "NONE" (None), "coroutine" (a  *)
(* coroutine object) or a value.                                           *)
(***************************************************************************)
Clock == 1..MaxClock

NoFileName == [type |-> "none", flattened |-> FALSE, stamp |-> 0]

\* line 63: the name of the export file
export_file_name(type, flattened, now) ==
    [type |-> type, flattened |-> flattened, stamp |-> now]

\* what calling a coroutine function gives the caller
coroutine_call == "coroutine"

\* line 72: downloaded_file.name exists on a Path, not on a coroutine object
has_name(v) == v = "path"

ExpOff ==
    /\ epc = "off"
    /\ export_type = "markdown"
    /\ flatten_export_file_tree = FALSE
    /\ export_trigger_timestamp = 0
    /\ task_id = "NONE"
    /\ download_url = "NONE"
    /\ file_name = NoFileName
    /\ downloaded_file = "NONE"
    /\ eresult = "none"

\* ExportFileTask.__init__ with a TaskConfig
ExpStart ==
    /\ epc = "idle"
    /\ export_type \in {"markdown", "html"}
    /\ flatten_export_file_tree \in BOOLEAN
    /\ export_trigger_timestamp = 0
    /\ task_id = "NONE"
    /\ download_url = "NONE"
    /\ file_name = NoFileName
    /\ downloaded_file = "NONE"
    /\ eresult = "none"

\* ExportFileTask.__init__ line 42: the trigger, with its default max_retries
TrigIdle ==
    /\ tpc = "idle"
    /\ tMax = TRIGGER_DEFAULT_MAX_RETRIES
    /\ tAttempt = 0
    /\ tInner = 0
    /\ enqueueCalls = 0
    /\ enqueueRaised = 0
    /\ enqueuePosts = 0
    /\ tresponse = NoResponse
    /\ tresult = "none"

\* ExportFileTask.__init__ line 43: the poller, with its default max_retries
PollIdle ==
    /\ ppc = "idle"
    /\ trigger = 0
    /\ pollMax = POLLER_DEFAULT_MAX_RETRIES
    /\ pscript = <<>>
    /\ ppos = 0
    /\ pAttempt = 0
    /\ pInner = 0
    /\ pollCalls = 0
    /\ pollRaised = 0
    /\ lastClass = "none"
    /\ presult = "NONE"

\* ExportFileTask.__init__ line 44: the downloader, with its default max_retries
DlIdle ==
    /\ dpc = "idle"
    /\ dMax = DEFAULT_MAX_RETRIES
    /\ dAttempt = 0
    /\ dInner = 0
    /\ getCalls = 0
    /\ body = 0
    /\ written = 0
    /\ file = "absent"
    /\ dresult = "none"

\* run returns None (lines 52, 60, 70, 77)
return_None ==
    /\ epc' = "returned"
    /\ eresult' = "None"

\* line 48: the timestamp is taken from the clock
export_run ==
    /\ epc = "idle"
    /\ \E now \in Clock : export_trigger_timestamp' = now
    /\ epc' = "trigger"
    /\ UNCHANGED <<export_type, flatten_export_file_tree, task_id,
                   download_url, file_name, downloaded_file, eresult>>
    /\ UNCHANGED notExp

\* lines 49-54: trigger_export_task() is called, not awaited
run_trigger ==
    /\ epc = "trigger"
    /\ task_id' = coroutine_call
    /\ IF ~Truthy(task_id')
       THEN return_None
       ELSE epc' = "poll" /\ UNCHANGED eresult
    /\ UNCHANGED <<export_type, flatten_export_file_tree,
                   export_trigger_timestamp, download_url, file_name,
                   downloaded_file>>
    /\ UNCHANGED notExp

\* lines 56-62: poll_for_download_url(export_trigger_timestamp) is called,
\* not awaited
run_poll ==
    /\ epc = "poll"
    /\ download_url' = coroutine_call
    /\ IF ~Truthy(download_url')
       THEN return_None
       ELSE epc' = "download" /\ UNCHANGED eresult
    /\ UNCHANGED <<export_type, flatten_export_file_tree,
                   export_trigger_timestamp, task_id, file_name,
                   downloaded_file>>
    /\ UNCHANGED notExp

\* lines 63-70: the file name is built and download_and_verify(...) is
\* called, not awaited
run_download ==
    /\ epc = "download"
    /\ \E now \in Clock :
         /\ now >= export_trigger_timestamp
         /\ file_name' = export_file_name(export_type,
                                          flatten_export_file_tree, now)
    /\ downloaded_file' = coroutine_call
    /\ IF ~Truthy(downloaded_file')
       THEN return_None
       ELSE epc' = "finish" /\ UNCHANGED eresult
    /\ UNCHANGED <<export_type, flatten_export_file_tree,
                   export_trigger_timestamp, task_id, download_url>>
    /\ UNCHANGED notExp

\* lines 72-77: downloaded_file.name is read; the AttributeError of a value
\* without that attribute is caught by "except Exception" and run returns
\* None
run_finish ==
    /\ epc = "finish"
    /\ epc' = "returned"
    /\ eresult' = IF has_name(downloaded_file) THEN downloaded_file ELSE "None"
    /\ UNCHANGED <<export_type, flatten_export_file_tree,
                   export_trigger_timestamp, task_id, download_url,
                   file_name, downloaded_file>>
    /\ UNCHANGED notExp

NextExport ==
    \/ export_run
    \/ run_trigger
    \/ run_poll
    \/ run_download
    \/ run_finish

(***************************************************************************)
(* AsyncNotionClient construction: __new__ (double-checked locking on the  *)
(* class), __init__ (credential validation, first initialisation) run by   *)
(* several threads, and the first use of the instance they get.            *)
(*                                                                         *)
(* A credential is what _validate_config looks at: whether it is there at  *)
(* all (None or a string), its length, and whether it holds one of the     *)
(* suspicious characters.                                                  *)
(***************************************************************************)
Threads == 1..NumThreads

Lengths == {0, MIN_CREDENTIAL_LENGTH - 1, MIN_CREDENTIAL_LENGTH,
            MIN_CREDENTIAL_LENGTH + 1}

Credentials ==
    {[present |-> FALSE, len |-> 0, suspicious |-> FALSE]}
    \cup {[present |-> TRUE, len |-> n, suspicious |-> b] :
            <<n, b>> \in {q \in Lengths \X BOOLEAN : q[1] = 0 => ~q[2]}}

Configs ==
    [notion_token_v2 : Credentials, notion_api_key : Credentials,
     notion_space_id : Credentials]

\* a credential of the given length; with or without a suspicious character
Credential(n, b) == [present |-> TRUE, len |-> n, suspicious |-> b]

\* the configs the threads of a concurrent construction pass: two that differ
\* and pass validation, and one that does not
SampleConfigs ==
    {[notion_token_v2 |-> Credential(MIN_CREDENTIAL_LENGTH, FALSE),
      notion_api_key |-> Credential(MIN_CREDENTIAL_LENGTH, FALSE),
      notion_space_id |-> Credential(MIN_CREDENTIAL_LENGTH, FALSE)],
     [notion_token_v2 |-> Credential(MIN_CREDENTIAL_LENGTH + 1, FALSE),
      notion_api_key |-> Credential(MIN_CREDENTIAL_LENGTH, FALSE),
      notion_space_id |-> Credential(MIN_CREDENTIAL_LENGTH, FALSE)],
     [notion_token_v2 |-> Credential(MIN_CREDENTIAL_LENGTH - 1, FALSE),
      notion_api_key |-> Credential(MIN_CREDENTIAL_LENGTH, FALSE),
      notion_space_id |-> Credential(MIN_CREDENTIAL_LENGTH, FALSE)]}

\* the instance has no config attribute (before line 61 has run)
Unset ==
    [notion_token_v2 |-> [present |-> FALSE, len |-> 0 - 1, suspicious |-> FALSE],
     notion_api_key |-> [present |-> FALSE, len |-> 0 - 1, suspicious |-> FALSE],
     notion_space_id |-> [present |-> FALSE, len |-> 0 - 1, suspicious |-> FALSE]]

\* Python's "not x" on a credential: None and the empty string are falsy
not_(x) == ~x.present \/ x.len = 0

\* _validate_config lines 248-255, for one credential
too_short(x) == not_(x) \/ x.len < MIN_CREDENTIAL_LENGTH

\* _validate_config: "ok" when it returns, else the message of its ValueError
validate_config(cfg) ==
    IF too_short(cfg.notion_token_v2)
    THEN "Invalid or missing Notion token_v2"
    ELSE IF too_short(cfg.notion_api_key)
    THEN "Invalid or missing Notion API key"
    ELSE IF too_short(cfg.notion_space_id)
    THEN "Invalid or missing Notion space ID"
    ELSE IF cfg.notion_token_v2.suspicious \/ cfg.notion_api_key.suspicious
    THEN "Configuration contains potentially unsafe characters"
    ELSE "ok"

ConsOff ==
    /\ instance = 0
    /\ created = 0
    /\ initialized = FALSE
    /\ lock = 0
    /\ npc = [t \in Threads |-> "off"]
    /\ arg = [t \in Threads |-> Unset]
    /\ ret = [t \in Threads |-> 0]
    /\ verdict = [t \in Threads |-> "none"]
    /\ self_config = Unset
    /\ self_session = "unset"
    /\ used = [t \in Threads |-> "none"]
    /\ sentWith = {}

\* the class as defined (lines 38-40), and every thread about to call
\* AsyncNotionClient(config) with one of the sample configs
ConsStart ==
    /\ instance = 0
    /\ created = 0
    /\ initialized = FALSE
    /\ lock = 0
    /\ npc = [t \in Threads |-> "idle"]
    /\ arg \in [Threads -> SampleConfigs]
    /\ ret = [t \in Threads |-> 0]
    /\ verdict = [t \in Threads |-> "none"]
    /\ self_config = Unset
    /\ self_session = "unset"
    /\ used = [t \in Threads |-> "none"]
    /\ sentWith = {}

\* the class as defined, and one thread about to call AsyncNotionClient
\* with any config
ValidateStart ==
    /\ instance = 0
    /\ created = 0
    /\ initialized = FALSE
    /\ lock = 0
    /\ npc = [t \in Threads |-> IF t = 1 THEN "idle" ELSE "off"]
    /\ \E cfg \in Configs : arg = [t \in Threads |-> IF t = 1 THEN cfg ELSE Unset]
    /\ ret = [t \in Threads |-> 0]
    /\ verdict = [t \in Threads |-> "none"]
    /\ self_config = Unset
    /\ self_session = "unset"
    /\ used = [t \in Threads |-> "none"]
    /\ sentWith = {}

\* __new__ line 43: the unlocked check; line 47 when an instance exists
new_check(t) ==
    /\ npc[t] = "idle"
    /\ IF instance = 0
       THEN /\ npc' = [npc EXCEPT ![t] = "wait_lock"]
            /\ UNCHANGED ret
       ELSE /\ npc' = [npc EXCEPT ![t] = "init"]
            /\ ret' = [ret EXCEPT ![t] = instance]
    /\ UNCHANGED <<instance, created, initialized, lock, arg, verdict,
                   self_config, self_session, used, sentWith>>
    /\ UNCHANGED notCons

\* __new__ line 44: the class lock is acquired
new_acquire(t) ==
    /\ npc[t] = "wait_lock"
    /\ lock = 0
    /\ lock' = t
    /\ npc' = [npc EXCEPT ![t] = "locked"]
    /\ UNCHANGED <<instance, created, initialized, arg, ret, verdict,
                   self_config, self_session, used, sentWith>>
    /\ UNCHANGED notCons

\* __new__ lines 45-47: the check under the lock, the object is created if
\* there is none, the lock is released and cls._instance is returned
new_locked(t) ==
    /\ npc[t] = "locked"
    /\ lock = t
    /\ IF instance = 0
       THEN /\ created' = created + 1
            /\ instance' = created + 1
       ELSE UNCHANGED <<created, instance>>
    /\ lock' = 0
    /\ ret' = [ret EXCEPT ![t] = instance']
    /\ npc' = [npc EXCEPT ![t] = "init"]
    /\ UNCHANGED <<initialized, arg, verdict, self_config, self_session, used,
                   sentWith>>
    /\ UNCHANGED notCons

\* __init__ lines 50-51: an initialised singleton is returned as it is
init_check(t) ==
    /\ npc[t] = "init"
    /\ npc' = [npc EXCEPT ![t] = IF initialized THEN "returned" ELSE "validate"]
    /\ UNCHANGED <<instance, created, initialized, lock, arg, ret, verdict,
                   self_config, self_session, used, sentWith>>
    /\ UNCHANGED notCons

\* __init__ line 59: _validate_config returns or raises ValueError, which
\* ends the construction
init_validate_skipped(t) ==
    /\ npc[t] = "validate"
    /\ verdict' = [verdict EXCEPT ![t] = validate_config(arg[t])]
    /\ npc' = [npc EXCEPT ![t] = "assign"]
    /\ UNCHANGED <<instance, created, initialized, lock, arg, ret,
                   self_config, self_session, used, sentWith>>
    /\ UNCHANGED notCons
init_validate(t) ==
    /\ npc[t] = "validate"
    /\ verdict' = [verdict EXCEPT ![t] = validate_config(arg[t])]
    /\ npc' = [npc EXCEPT ![t] =
                  IF validate_config(arg[t]) = "ok" THEN "assign" ELSE "raised"]
    /\ UNCHANGED <<instance, created, initialized, lock, arg, ret,
                   self_config, self_session, used, sentWith>>
    /\ UNCHANGED notCons

\* __init__ lines 61-63: config, _session and _connector are assigned
init_assign(t) ==
    /\ npc[t] = "assign"
    /\ self_config' = arg[t]
    /\ self_session' = "None"
    /\ npc' = [npc EXCEPT ![t] = "set"]
    /\ UNCHANGED <<instance, created, initialized, lock, arg, ret, verdict,
                   used, sentWith>>
    /\ UNCHANGED notCons

\* __init__ lines 64-65: the class is marked initialised and the
\* construction returns
init_done(t) ==
    /\ npc[t] = "set"
    /\ initialized' = TRUE
    /\ npc' = [npc EXCEPT ![t] = "returned"]
    /\ UNCHANGED <<instance, created, lock, arg, ret, verdict, self_config,
                   self_session, used, sentWith>>
    /\ UNCHANGED notCons

\* a thread whose construction is over makes a request on the instance (a
\* thread whose construction raised reaches it as AsyncNotionClient._instance).
\* _ensure_session line 78 reads self._session: AttributeError if __init__
\* never assigned it; a handshake with the credentials of self.config if it
\* is None; else the request goes out on the session there is
use(t) ==
    /\ npc[t] \in {"returned", "raised"}
    /\ instance # 0
    /\ used[t] = "none"
    /\ IF self_session = "unset"
       THEN /\ used' = [used EXCEPT ![t] = "AttributeError"]
            /\ UNCHANGED <<self_session, sentWith>>
       ELSE /\ used' = [used EXCEPT ![t] = "sent"]
            /\ self_session' = "open"
            /\ sentWith' = sentWith \cup {self_config}
    /\ UNCHANGED <<instance, created, initialized, lock, npc, arg, ret,
                   verdict, self_config>>
    /\ UNCHANGED notCons

NextConstruct ==
    \E t \in Threads :
        \/ new_check(t)
        \/ new_acquire(t)
        \/ new_locked(t)
        \/ init_check(t)
        \/ init_validate(t)
        \/ init_assign(t)
        \/ init_done(t)
        \/ use(t)

(***************************************************************************)
(* ExportFilePoller: one attempt on a response whose activity map holds    *)
(* several entries, in the order of the JSON object.                       *)
(***************************************************************************)
\* the entries an activity map can hold
Entries == {r \in PollResponses : r.activity # "absent"}

ActivityMaps == SeqsUpTo(Entries, MaxEntries)

NoAttempt == [class |-> "none", link |-> ""]

\* _extract_activity_node: a missing or empty map is falsy (line 95);
\* next(iter(activity_map.values())) is the first entry (line 98)
extract_activity_node_last(m) ==
    IF m = <<>> THEN Notification("absent", "absent", 0, "absent", "")
    ELSE m[Len(m)]

extract_activity_node(m) ==
    IF m = <<>> THEN Notification("absent", "absent", 0, "absent", "")
    ELSE m[1]

\* _try_get_download_url lines 122-123: the exception raised, or the link
try_get_download_url(m, ts) ==
    LET node == extract_activity_node(m)
        cls == classify(node, ts)
    IN  [class |-> cls, link |-> IF cls = "Found" THEN node.link ELSE ""]

ActOff ==
    /\ activity_map = <<>>
    /\ trigger_ts = 0
    /\ apc = "off"
    /\ attempt_outcome = NoAttempt

\* a response has arrived for an attempt made with some trigger timestamp
ActStart ==
    /\ activity_map \in ActivityMaps
    /\ trigger_ts \in Triggers
    /\ apc = "response"
    /\ attempt_outcome = NoAttempt

try_get_download_url_returns ==
    /\ apc = "response"
    /\ attempt_outcome' = try_get_download_url(activity_map, trigger_ts)
    /\ apc' = "done"
    /\ UNCHANGED <<activity_map, trigger_ts>>
    /\ UNCHANGED notAct

NextAttempt == try_get_download_url_returns

(***************************************************************************)
(* NotionPageUpdateTask.run: fetch_rows, the calculator, then the PATCH of *)
(* the callout block through HTTPClientMixin._make_notion_request.         *)
(***************************************************************************)
\* SumCalculator.calculate_total_for_column: the sum of the rows' numbers
RECURSIVE calculate_total_for_column(_)
calculate_total_for_column(rs) ==
    IF rs = <<>> THEN 0 ELSE rs[1] + calculate_total_for_column(Tail(rs))

\* the responses of the database server of a page-update task: pages that
\* go on, end or are empty, a response without results, error envelopes
PageResponses ==
    {Page(FALSE, 200, FALSE, TRUE, <<1>>, "c1"),
     Page(FALSE, 200, FALSE, TRUE, <<2, 1>>, "NULL"),
     Page(FALSE, 200, FALSE, TRUE, <<>>, "ABSENT"),
     Page(FALSE, 200, FALSE, FALSE, <<>>, "c1"),
     Page(TRUE, 400, TRUE, FALSE, <<>>, "ABSENT"),
     Page(TRUE, 400, FALSE, FALSE, <<>>, "ABSENT")}

PageScripts == SeqsUpTo(PageResponses, MaxPages) \ {<<>>}

PageOff ==
    /\ upc = "off"
    /\ rows = <<>>
    /\ total_value = -1
    /\ uAttempt = 0
    /\ patches = 0
    /\ patched_value = -1
    /\ uerror = "none"

PageStart ==
    /\ upc = "idle"
    /\ rows = <<>>
    /\ total_value = -1
    /\ uAttempt = 0
    /\ patches = 0
    /\ patched_value = -1
    /\ uerror = "none"

\* run lines 96-106: the task calls self.db.fetch_rows(database_id)
page_run ==
    /\ upc = "idle"
    /\ upc' = "fetching"
    /\ UNCHANGED <<rows, total_value, uAttempt, patches, patched_value, uerror>>
    /\ UNCHANGED notPage

\* fetch_rows raised: line 106 raises, the except clause logs and re-raises
\* (lines 118-120); what is not an Exception passes through as well
page_fetch_raised ==
    /\ upc = "fetching"
    /\ fpc = "raised"
    /\ upc' = "raised"
    /\ uerror' = ferror
    /\ UNCHANGED <<rows, total_value, uAttempt, patches, patched_value>>
    /\ UNCHANGED notPage

\* fetch_rows returned: lines 106-114, the total is calculated and
\* _update_callout_block makes the first attempt of the PATCH
page_fetch_returned ==
    /\ upc = "fetching"
    /\ fpc = "returned"
    /\ rows' = all_results
    /\ total_value' = calculate_total_for_column(all_results)
    /\ uAttempt' = 1
    /\ upc' = "patch"
    /\ UNCHANGED <<patches, patched_value, uerror>>
    /\ UNCHANGED notPage

\* client.patch returns: the block carries the total, run returns
page_patch_ok ==
    /\ upc = "patch"
    /\ patches' = patches + 1
    /\ patched_value' = total_value
    /\ upc' = "returned"
    /\ UNCHANGED <<rows, total_value, uAttempt, uerror>>
    /\ UNCHANGED notPage

\* client.patch raises, with or without a PATCH sent: _make_notion_request
\* (stop_after_attempt(DEFAULT_MAX_RETRIES), reraise=True) calls it again
\* or re-raises, and run raises
page_patch_fail ==
    /\ upc = "patch"
    /\ \E sent \in BOOLEAN : patches' = IF sent THEN patches + 1 ELSE patches
    /\ IF StopAfterAttempt(uAttempt, DEFAULT_MAX_RETRIES)
       THEN upc' = "raised" /\ uerror' = "RetryError" /\ UNCHANGED uAttempt
       ELSE uAttempt' = uAttempt + 1 /\ UNCHANGED <<upc, uerror>>
    /\ UNCHANGED <<rows, total_value, patched_value>>
    /\ UNCHANGED notPage

NextPageTask ==
    \/ page_run
    \/ (upc = "fetching" /\ NextFetch)
    \/ page_fetch_raised
    \/ page_fetch_returned
    \/ page_patch_ok
    \/ page_patch_fail

(***************************************************************************)
(* ExportFileWatcher.wait_for_file, called by GoogleDriveUploadTask.run.   *)
(*                                                                         *)
(* A file name is a sequence of characters.  The directory holds the files *)
(* put there by others and, once ExportFileDownloader has opened it, the   *)
(* export file.                                                            *)
(***************************************************************************)
\* EXPORT_FILE_NAME-<type>...: the name ExportFileTask gives the download
ExportFile == <<"n", "e", "m">>

FileNames == {<<"n", "e">>, <<"n", "e", "1">>, <<"n">>, <<"o", "n", "e">>}

Prefixes == {<<"n", "e">>, <<"x">>}

NoPath == <<>>

\* directory.glob(f"{prefix}*"), line 36: the names that start with prefix
glob_containing(names, pre) ==
    {f \in names : \E i \in 1..Len(f) :
        i + Len(pre) - 1 <= Len(f) /\ SubSeq(f, i, i + Len(pre) - 1) = pre}

glob(names, pre) ==
    {f \in names : Len(f) >= Len(pre) /\ SubSeq(f, 1, Len(pre)) = pre}

\* what the directory lists
listing == directory \cup (IF file = "file" THEN {ExportFile} ELSE {})

\* what ExportFileDownloader has done to a file of the directory
file_state(f) ==
    IF f # ExportFile \/ dpc = "off" THEN "other"
    ELSE IF dpc = "stream" THEN "writing"
    ELSE IF dpc = "returned" /\ written = body THEN "complete"
    ELSE "partial"

WatchOff ==
    /\ wpc = "off"
    /\ prefix = <<>>
    /\ timeout_seconds = 0
    /\ interval = 1
    /\ elapsed = 0
    /\ checks = 0
    /\ directory = {}
    /\ wresult = NoPath
    /\ handover = "none"
    /\ uploading = "none"

\* a call wait_for_file(directory, prefix, timeout_seconds, interval) on an
\* empty directory
WatchStart ==
    /\ wpc = "idle"
    /\ prefix \in Prefixes
    /\ timeout_seconds \in 0..MaxTimeout
    /\ interval \in 1..MaxInterval
    /\ elapsed = 0
    /\ checks = 0
    /\ directory = {}
    /\ wresult = NoPath
    /\ handover = "none"
    /\ uploading = "none"

\* lines 32-33
wait_for_file ==
    /\ wpc = "idle"
    /\ elapsed' = 0
    /\ wpc' = "loop"
    /\ UNCHANGED <<prefix, timeout_seconds, interval, checks, directory,
                   wresult, handover, uploading>>
    /\ UNCHANGED notWatch

\* lines 35-39: one directory check; matching_files[0] is any of the matches
watch_check ==
    /\ wpc = "loop"
    /\ elapsed < timeout_seconds
    /\ checks' = checks + 1
    /\ LET matching_files == glob(listing, prefix)
       IN  IF matching_files # {}
           THEN \E f \in matching_files :
                    /\ wresult' = f
                    /\ handover' = file_state(f)
                    /\ wpc' = "returned"
           ELSE /\ wpc' = "sleep"
                /\ UNCHANGED <<wresult, handover>>
    /\ UNCHANGED <<prefix, timeout_seconds, interval, elapsed, directory,
                   uploading>>
    /\ UNCHANGED notWatch

\* lines 41-42: time.sleep(interval) returns
watch_sleep ==
    /\ wpc = "sleep"
    /\ elapsed' = elapsed + interval
    /\ wpc' = "loop"
    /\ UNCHANGED <<prefix, timeout_seconds, interval, checks, directory,
                   wresult, handover, uploading>>
    /\ UNCHANGED notWatch

\* lines 35, 45: the loop ends, SystemExit
watch_timeout ==
    /\ wpc = "loop"
    /\ ~(elapsed < timeout_seconds)
    /\ wpc' = "raised"
    /\ UNCHANGED <<prefix, timeout_seconds, interval, elapsed, checks,
                   directory, wresult, handover, uploading>>
    /\ UNCHANGED notWatch

\* someone else puts a file in the directory
file_appears ==
    /\ wpc \in {"idle", "loop", "sleep"}
    /\ \E f \in FileNames \ directory : directory' = directory \cup {f}
    /\ UNCHANGED <<wpc, prefix, timeout_seconds, interval, elapsed, checks,
                   wresult, handover, uploading>>
    /\ UNCHANGED notWatch

\* GoogleDriveUploadTask.run line 49: the upload of the returned file starts
start_google_drive_backup ==
    /\ wpc = "returned"
    /\ uploading' = file_state(wresult)
    /\ wpc' = "uploading"
    /\ UNCHANGED <<prefix, timeout_seconds, interval, elapsed, checks,
                   directory, wresult, handover>>
    /\ UNCHANGED notWatch

WatcherStep ==
    \/ wait_for_file
    \/ watch_check
    \/ watch_sleep
    \/ watch_timeout

NextWatch ==
    \/ wait_for_file
    \/ watch_check
    \/ watch_sleep
    \/ watch_timeout
    \/ file_appears

\* GoogleDriveUploadTask.run beside ExportFileDownloader.download_and_verify
NextBackup ==
    \/ wait_for_file
    \/ watch_check
    \/ watch_sleep
    \/ watch_timeout
    \/ start_google_drive_backup
    \/ NextDownload

(***************************************************************************)
(* HTTPClientMixin._make_parallel_requests: one _make_request coroutine    *)
(* per request, all gathered, each holding the semaphore for the whole of  *)
(* its _make_notion_request (retries included).                            *)
(***************************************************************************)
Requests == 1..NumRequests

Bodies == {"a", "b"}

\* asyncio.Semaphore.locked(): no permit is left, acquire() has to wait
locked_never(value) == FALSE

locked(value) == value = 0

\* asyncio.gather: the results in the order of the awaitables given
gather(res) == [i \in 1..NumRequests |-> res[i]]

ParOff ==
    /\ gpc = "off"
    /\ max_concurrent = 1
    /\ semaphore = 0
    /\ qpc = [i \in Requests |-> "off"]
    /\ qAttempt = [i \in Requests |-> 0]
    /\ responses = [i \in Requests |-> "none"]
    /\ completed = <<>>
    /\ gresult = <<>>

\* a call _make_parallel_requests(requests, max_concurrent)
ParStart ==
    /\ gpc = "idle"
    /\ max_concurrent \in 1..MaxConcurrent
    /\ semaphore = 0
    /\ qpc = [i \in Requests |-> "off"]
    /\ qAttempt = [i \in Requests |-> 0]
    /\ responses = [i \in Requests |-> "none"]
    /\ completed = <<>>
    /\ gresult = <<>>

\* lines 160-174: the semaphore is made, the coroutines are made and
\* gathered
make_parallel_requests ==
    /\ gpc = "idle"
    /\ semaphore' = max_concurrent
    /\ qpc' = [i \in Requests |-> "waiting"]
    /\ gpc' = "gathering"
    /\ UNCHANGED <<max_concurrent, qAttempt, responses, completed, gresult>>
    /\ UNCHANGED notPar

\* line 166-167: async with semaphore, then the first attempt of
\* _make_notion_request
make_request(i) ==
    /\ qpc[i] = "waiting"
    /\ ~locked(semaphore)
    /\ semaphore' = semaphore - 1
    /\ qpc' = [qpc EXCEPT ![i] = "inflight"]
    /\ qAttempt' = [qAttempt EXCEPT ![i] = 1]
    /\ UNCHANGED <<gpc, max_concurrent, responses, completed, gresult>>
    /\ UNCHANGED notPar

\* _make_notion_request returns the response data; the semaphore is released
make_request_returns(i) ==
    /\ qpc[i] = "inflight"
    /\ \E b \in Bodies : responses' = [responses EXCEPT ![i] = b]
    /\ semaphore' = semaphore + 1
    /\ qpc' = [qpc EXCEPT ![i] = "done"]
    /\ completed' = Append(completed, i)
    /\ UNCHANGED <<gpc, max_concurrent, qAttempt, gresult>>
    /\ UNCHANGED notPar

\* an attempt of _make_notion_request raises: @retry (lines 46-50) runs it
\* again, or re-raises; then the semaphore is released and the coroutine
\* has raised
make_request_fails(i) ==
    /\ qpc[i] = "inflight"
    /\ IF StopAfterAttempt(qAttempt[i], DEFAULT_MAX_RETRIES)
       THEN /\ qpc' = [qpc EXCEPT ![i] = "raised"]
            /\ semaphore' = semaphore + 1
            /\ completed' = Append(completed, i)
            /\ UNCHANGED qAttempt
       ELSE /\ qAttempt' = [qAttempt EXCEPT ![i] = qAttempt[i] + 1]
            /\ UNCHANGED <<qpc, semaphore, completed>>
    /\ UNCHANGED <<gpc, max_concurrent, responses, gresult>>
    /\ UNCHANGED notPar

\* lines 174-176: every coroutine has returned, gather returns the list
gather_done ==
    /\ gpc = "gathering"
    /\ \A i \in Requests : qpc[i] = "done"
    /\ gresult' = gather(responses)
    /\ gpc' = "returned"
    /\ UNCHANGED <<max_concurrent, semaphore, qpc, qAttempt, responses,
                   completed>>
    /\ UNCHANGED notPar

\* lines 174, 177-179: a coroutine has raised; gather raises its exception
\* (the other coroutines go on), and so does _make_parallel_requests
gather_raised ==
    /\ gpc = "gathering"
    /\ \E i \in Requests : qpc[i] = "raised"
    /\ gpc' = "raised"
    /\ UNCHANGED <<max_concurrent, semaphore, qpc, qAttempt, responses,
                   completed, gresult>>
    /\ UNCHANGED notPar

NextParallel ==
    \/ make_parallel_requests
    \/ \E i \in Requests : make_request(i)
    \/ \E i \in Requests : make_request_returns(i)
    \/ \E i \in Requests : make_request_fails(i)
    \/ gather_done
    \/ gather_raised

(***************************************************************************)
(* Specifications                                                          *)
(***************************************************************************)
InitFetch == FetchStart /\ PollOff /\ SessOff /\ RunOff /\ DlOff /\ ReqOff
    /\ TrigOff /\ ExpOff /\ ConsOff
    /\ ActOff
    /\ PageOff
    /\ WatchOff
    /\ ParOff
InitPoll == FetchOff /\ PollStart /\ SessOff /\ RunOff /\ DlOff /\ ReqOff
    /\ TrigOff /\ ExpOff /\ ConsOff
    /\ ActOff
    /\ PageOff
    /\ WatchOff
    /\ ParOff
InitSession == FetchOff /\ PollOff /\ SessStart /\ RunOff /\ DlOff /\ ReqOff
    /\ TrigOff /\ ExpOff /\ ConsOff
    /\ ActOff
    /\ PageOff
    /\ WatchOff
    /\ ParOff
InitRunner == FetchOff /\ PollOff /\ SessOff /\ RunStart /\ DlOff /\ ReqOff
    /\ TrigOff /\ ExpOff /\ ConsOff
    /\ ActOff
    /\ PageOff
    /\ WatchOff
    /\ ParOff
InitDownload == FetchOff /\ PollOff /\ SessOff /\ RunOff /\ DlStart /\ ReqOff
    /\ TrigOff /\ ExpOff /\ ConsOff
    /\ ActOff
    /\ PageOff
    /\ WatchOff
    /\ ParOff
InitRequest == FetchOff /\ PollOff /\ SessOff /\ RunOff /\ DlOff /\ ReqStart
    /\ TrigOff /\ ExpOff /\ ConsOff
    /\ ActOff
    /\ PageOff
    /\ WatchOff
    /\ ParOff

SpecFetch == InitFetch /\ [][NextFetch]_vars
SpecPoll == InitPoll /\ [][NextPoll]_vars
SpecSession == InitSession /\ [][NextSession]_vars
InitLifecycle == FetchOff /\ PollOff /\ LifeStart /\ RunOff /\ DlOff /\ ReqOff
    /\ TrigOff /\ ExpOff /\ ConsOff
    /\ ActOff
    /\ PageOff
    /\ WatchOff
    /\ ParOff
SpecLifecycle == InitLifecycle /\ [][NextLifecycle]_vars
SpecRunner == InitRunner /\ [][NextRunner]_vars
SpecDownload == InitDownload /\ [][NextDownload]_vars
SpecRequest == InitRequest /\ [][NextRequest]_vars

InitTrigger == FetchOff /\ PollOff /\ SessOff /\ RunOff /\ DlOff /\ ReqOff
    /\ TrigStart /\ ExpOff /\ ConsOff
    /\ ActOff
    /\ PageOff
    /\ WatchOff
    /\ ParOff
SpecTrigger == InitTrigger /\ [][NextTrigger]_vars

\* an ExportFileTask with the collaborators its constructor made
InitExport == FetchOff /\ PollIdle /\ SessOff /\ RunOff /\ DlIdle /\ ReqOff
    /\ TrigIdle /\ ExpStart /\ ConsOff
    /\ ActOff
    /\ PageOff
    /\ WatchOff
    /\ ParOff
SpecExport == InitExport /\ [][NextExport]_vars

\* concurrent constructions of the singleton client
InitConstruct == FetchOff /\ PollOff /\ SessOff /\ RunOff /\ DlOff /\ ReqOff
    /\ TrigOff /\ ExpOff /\ ConsStart
    /\ ActOff
    /\ PageOff
    /\ WatchOff
    /\ ParOff
SpecConstruct == InitConstruct /\ [][NextConstruct]_vars

\* one construction, with any credentials
InitValidate == FetchOff /\ PollOff /\ SessOff /\ RunOff /\ DlOff /\ ReqOff
    /\ TrigOff /\ ExpOff /\ ValidateStart
    /\ ActOff
    /\ PageOff
    /\ WatchOff
    /\ ParOff
SpecValidate == InitValidate /\ [][NextConstruct]_vars

\* every retried operation: the paginated fetch, the download, a direct request
InitRetry == InitFetch \/ InitDownload \/ InitRequest
NextRetry == NextFetch \/ NextDownload \/ NextRequest
SpecRetry == InitRetry /\ [][NextRetry]_vars

\* one poll attempt on any activity map
InitAttempt == FetchOff /\ PollOff /\ SessOff /\ RunOff /\ DlOff /\ ReqOff
    /\ TrigOff /\ ExpOff /\ ConsOff /\ ActStart
    /\ PageOff
    /\ WatchOff
    /\ ParOff
SpecAttempt == InitAttempt /\ [][NextAttempt]_vars

\* a page-update task with its database
InitPageTask == FetchStart /\ script \in PageScripts /\ PollOff /\ SessOff
    /\ RunOff /\ DlOff /\ ReqOff
    /\ TrigOff /\ ExpOff /\ ConsOff /\ ActOff /\ PageStart
    /\ WatchOff
    /\ ParOff
SpecPageTask == InitPageTask /\ [][NextPageTask]_vars

\* one call of wait_for_file; the thread that runs it keeps running
InitWatch == FetchOff /\ PollOff /\ SessOff /\ RunOff /\ DlOff /\ ReqOff
    /\ TrigOff /\ ExpOff /\ ConsOff /\ ActOff /\ PageOff /\ WatchStart
    /\ ParOff
SpecWatch == InitWatch /\ [][NextWatch]_vars /\ WF_vars(WatcherStep)

\* the upload task and the download of the export task, side by side
InitBackup == FetchOff /\ PollOff /\ SessOff /\ RunOff /\ DlStart /\ ReqOff
    /\ TrigOff /\ ExpOff /\ ConsOff /\ ActOff /\ PageOff /\ WatchStart
    /\ ParOff
SpecBackup == InitBackup /\ [][NextBackup]_vars

\* one call of _make_parallel_requests
InitParallel == FetchOff /\ PollOff /\ SessOff /\ RunOff /\ DlOff /\ ReqOff
    /\ TrigOff /\ ExpOff /\ ConsOff /\ ActOff /\ PageOff /\ WatchOff
    /\ ParStart
SpecParallel == InitParallel /\ [][NextParallel]_vars

Init ==
    \/ InitFetch \/ InitPoll \/ InitSession \/ InitRunner \/ InitDownload
    \/ InitRequest \/ InitTrigger \/ InitExport \/ InitConstruct
    \/ InitLifecycle
    \/ InitAttempt
    \/ InitPageTask
    \/ InitWatch
    \/ InitBackup
    \/ InitParallel
Next ==
    \/ NextFetch \/ NextPoll \/ NextSession \/ NextRunner \/ NextDownload
    \/ NextRequest \/ NextTrigger \/ NextExport \/ NextConstruct
    \/ NextLifecycle
    \/ NextAttempt
    \/ NextPageTask
    \/ NextWatch
    \/ NextBackup
    \/ NextParallel
Spec == Init /\ [][Next]_vars

(***************************************************************************)
(* Properties of NotionDatabase.fetch_rows                                 *)
(***************************************************************************)
RECURSIVE Flatten(_)
Flatten(pages) ==
    IF pages = <<>> THEN <<>>
    ELSE pages[1].results \o Flatten(Tail(pages))

\* every response of the script is a page: results present, no error envelope
AllPages ==
    \A i \in 1..Len(script) :
        script[i].hasResults /\ ~(script[i].hasStatus /\ script[i].status # 200)

\* every page except the last carries a next_cursor that is not null
NonNullCursorsExceptLast ==
    \A i \in 1..(Len(script) - 1) : script[i].cursor \notin {"ABSENT", "NULL"}

\* every page except the last carries a next_cursor that is a non-empty string
NonEmptyCursorsExceptLast ==
    \A i \in 1..(Len(script) - 1) : script[i].cursor \notin {"ABSENT", "NULL", ""}

\* C1 as stated: for any sequence of N page responses in which every page
\* except the last carries a non-null next_cursor, fetch_rows returns the
\* concatenation of all pages' results in arrival order and issues exactly
\* N query requests.
C1_NonNullCursorPagination ==
    (fpc = "returned" /\ AllPages /\ NonNullCursorsExceptLast)
        => (all_results = Flatten(script) /\ queries = Len(script))

\* C1 amended: when every page except the last carries a non-empty
\* next_cursor, a fetch_rows that returns has issued exactly N query
\* requests, all N answered, and returns the concatenation of the N pages'
\* results in arrival order, unsorted and with duplicates kept; it never
\* asks for more than N pages that way, and the only way it fails is that a
\* query exhausted its retries.
C1_PaginationCompleteness ==
    (fpc \notin {"off", "idle"} /\ Truthy(database_id) /\ AllPages
     /\ NonEmptyCursorsExceptLast)
        => /\ fpc = "returned" =>
                /\ all_results = Flatten(script)
                /\ queries = Len(script)
                /\ pos = Len(script)
           /\ fpc = "raised" => ferror = "RetryError"
           /\ all_results = Flatten(SubSeq(script, 1, pos))
           /\ queries <= pos + 1

C1_Witness ==
    /\ fpc = "returned"
    /\ AllPages
    /\ NonEmptyCursorsExceptLast
    /\ Len(script) = 2
    /\ queries = 2
    /\ all_results = <<2, 1, 1>>

\* C2: a page response that lacks the results field makes fetch_rows raise,
\* at any page position: the call ends right there with KeyError (with the
\* envelope's error when the response is an error envelope) and never
\* returns, neither an empty list nor the rows accumulated so far.
C2_MissingResultsRaises ==
    \A i \in 1..pos :
        ~script[i].hasResults =>
            /\ i = pos
            /\ fpc = "raised"
            /\ ferror \in {"KeyError", "ClientError"}
            /\ ~(script[i].hasStatus /\ script[i].status # 200)
                    => ferror = "KeyError"

C2_Witness ==
    /\ pos = 2
    /\ ~script[2].hasResults
    /\ ~script[2].hasStatus
    /\ all_results # <<>>
    /\ fpc = "raised"
    /\ ferror = "KeyError"

\* C10: fetch_rows called with an empty or absent database id fails with
\* ValueError before any request is issued; ValueError means just that.
C10_MissingIdentifier ==
    /\ (fpc \notin {"off", "idle"} /\ database_id \in {"NONE", ""})
            => /\ fpc = "raised"
               /\ ferror = "ValueError"
               /\ queries = 0
               /\ httpPosts = 0
               /\ outerAttempt = 0
               /\ pos = 0
    /\ ferror = "ValueError" => database_id \in {"NONE", ""}

C10_Witness ==
    /\ fpc = "raised"
    /\ ferror = "ValueError"
    /\ database_id = ""
    /\ queries = 0

\* C11: a page response whose body carries a status field different from
\* 200 makes fetch_rows raise a domain error (ClientError, carrying the
\* embedded status and message), which is not what a transport failure ends
\* in (RetryError); no further page is requested and no rows are returned.
C11_ErrorEnvelopeRaisesDomainError ==
    \A i \in 1..pos :
        error_envelope(script[i]) =>
            /\ i = pos
            /\ fpc = "raised"
            /\ ferror = "ClientError"
            /\ queries = pos

\* a response that breaks the pagination protocol: no error envelope, and
\* no results field
Violation(data) == ~error_envelope(data) /\ ~data.hasResults

\* C12: a page response missing the results field is raised at once and is
\* not retried: the offending page was asked for by one query request, as
\* every page before it, and nothing is requested after it.
C12_ViolationNotRetried ==
    /\ \A i \in 1..pos :
            Violation(script[i]) =>
                /\ i = pos
                /\ fpc = "raised"
                /\ ferror = "KeyError"
                /\ queries = pos
    /\ ferror = "KeyError" => queries = pos /\ fpc = "raised"

C12_Witness ==
    /\ pos = 2
    /\ Violation(script[2])
    /\ script[1].cursor = "c1"
    /\ fpc = "raised"
    /\ ferror = "KeyError"
    /\ queries = 2
    /\ httpPosts = 2

\* a well-formed page (no error envelope, results present) without the
\* next_cursor key
OmitsCursor(data) ==
    ~error_envelope(data) /\ data.hasResults /\ data.cursor = "ABSENT"

\* C13 as stated: a page response that omits the next_cursor key is a
\* protocol violation; fetch_rows raises rather than taking the omission for
\* the end of the collection.
C13_OmittedCursorRaises ==
    (pos > 0 /\ OmitsCursor(script[pos])) => fpc = "raised"

\* C13 amended: a page response that omits the next_cursor key ends the
\* pagination as a null cursor does: fetch_rows returns the rows of the
\* pages received so far and requests nothing more.
C13_OmittedCursorEndsPagination ==
    \A i \in 1..pos :
        OmitsCursor(script[i]) =>
            /\ i = pos
            /\ fpc = "returned"
            /\ ferror = "none"
            /\ all_results = Flatten(SubSeq(script, 1, pos))
            /\ queries = pos

C13_Witness ==
    /\ pos = 2
    /\ OmitsCursor(script[2])
    /\ script[1].cursor = "c1"
    /\ fpc = "returned"
    /\ all_results = <<1, 2, 1>>
    /\ queries = 2

(***************************************************************************)
(* Properties of the retry layers                                          *)
(***************************************************************************)
\* C3: an operation whose every attempt fails runs its wrapped call exactly
\* maxAttempts times before the final error is surfaced, no more and no
\* fewer, for every retried operation: an AsyncNotionClient method makes
\* DEFAULT_MAX_RETRIES attempts, _retry_fetch_rows makes max_retries calls of
\* client.post, _download_file makes max_retries calls of client.get.
C3_RetryBound ==
    \* AsyncNotionClient.post under _retry_fetch_rows
    /\ innerAttempt <= DEFAULT_MAX_RETRIES
    /\ fpc = "post_raised" => innerAttempt = DEFAULT_MAX_RETRIES
    \* _retry_fetch_rows
    /\ outerAttempt <= max_retries
    /\ ferror = "RetryError" =>
            outerAttempt = max_retries /\ innerAttempt = DEFAULT_MAX_RETRIES
    \* AsyncNotionClient.get under _download_file, and _download_file
    /\ dInner <= DEFAULT_MAX_RETRIES
    /\ dAttempt <= dMax
    /\ getCalls = dAttempt
    /\ dresult = "None" => getCalls = dMax
    \* post, get, patch, delete called directly
    /\ mAttempt <= DEFAULT_MAX_RETRIES
    /\ mSent <= mAttempt
    /\ mresult = "RetryError" => mAttempt = DEFAULT_MAX_RETRIES

C3_Witness ==
    /\ fpc = "raised"
    /\ ferror = "RetryError"
    /\ max_retries = 2
    /\ outerAttempt = 2
    /\ innerAttempt = DEFAULT_MAX_RETRIES
    /\ queries = 1

(***************************************************************************)
(* Properties of the session                                               *)
(***************************************************************************)
\* C4: when N callers concurrently make their first request on a client
\* with no live session, exactly one bootstrap handshake executes, and every
\* other caller waits for it and reuses the resulting session: as long as
\* no handshake has failed, at most one loadUserContent call was issued and
\* no caller's request was sent before the handshake had completed.
C4_SingletonUnderRace ==
    ~handshakeFailed =>
        /\ handshakes <= 1
        /\ \A c \in Callers : cpc[c] \in {"request", "done"} => reqAuth[c]

(***************************************************************************)
(* Properties of ExportFilePoller                                          *)
(***************************************************************************)
\* the node the poller reads has a start_time it can convert to an integer
Timed(r) == r.activity = "node" /\ r.stKind \in {"int", "str"}

Stale(r) == Timed(r) /\ r.st < trigger

Fresh(r) == Timed(r) /\ r.st >= trigger

HasLink(r) == r.edits = "link" /\ r.link # ""

Acceptable(r) == Fresh(r) /\ HasLink(r)

\* index of the first acceptable response of the script, 0 if there is none
FirstAcceptable ==
    LET hits == {i \in 1..Len(pscript) : Acceptable(pscript[i])}
    IN  IF hits = {} THEN 0
        ELSE CHOOSE i \in hits : \A j \in hits : i <= j

\* C5: a poll response whose first activity start_time is strictly less
\* than the trigger timestamp is never returned as the answer, even when it
\* carries a valid link; the poller goes on to the next attempt (or gives up
\* when that was the last one).
C5_StalenessRejection ==
    \A i \in 1..ppos :
        Stale(pscript[i]) =>
            /\ ~(ppc = "returned" /\ i = ppos)
            /\ i = ppos => \/ ppc = "http" /\ pAttempt = ppos + pollRaised + 1
                           \/ ppc = "raised" /\ pAttempt = pollMax

C5_Witness ==
    /\ ppos = 1
    /\ Stale(pscript[1])
    /\ HasLink(pscript[1])
    /\ ppc = "http"
    /\ pAttempt = 2
    /\ lastClass = "StaleExportError"

\* C6: a poll response with start_time >= triggerTimestamp (equality
\* included) and a link terminates polling, and poll_for_download_url
\* returns exactly that link.
C6_FreshnessAcceptance ==
    \A i \in 1..ppos :
        Acceptable(pscript[i]) =>
            /\ i = ppos
            /\ ppc = "returned"
            /\ presult = pscript[i].link

C6_Witness ==
    /\ ppc = "returned"
    /\ ppos = 2
    /\ pscript[2].st = trigger
    /\ presult = "u1"

\* C9: polling makes exactly one status-check call per attempt and stops at
\* the first response that is fresh and carries a link: when every call is
\* answered, the first acceptable response being the k-th (k within the
\* attempt ceiling), exactly k calls are made and the k-th response's link
\* is returned.
C9_PollCallCount ==
    /\ pollCalls = pAttempt
    /\ pAttempt <= pollMax
    /\ pollRaised = 0 =>
        /\ pollCalls = ppos + (IF ppc = "http" THEN 1 ELSE 0)
        /\ FirstAcceptable # 0 => pollCalls <= FirstAcceptable
        /\ ppc = "returned" =>
                /\ pollCalls = FirstAcceptable
                /\ presult = pscript[FirstAcceptable].link
        /\ ppc = "raised" => FirstAcceptable = 0 \/ FirstAcceptable > pollMax

C9_Witness ==
    /\ trigger = 1000
    /\ ppc = "returned"
    /\ pollCalls = 3
    /\ pollRaised = 0
    /\ pscript[1].st = 500
    /\ pscript[2].edits = "nolink"
    /\ pscript[3].st = 1300
    /\ presult = "u2"

\* a response the poller cannot read: no recordMap or activity, a first
\* entry without value, a node without a usable start_time, an empty edits
\* list
Malformed(r) ==
    \/ r.activity \in {"absent", "novalue"}
    \/ r.stKind \in {"absent", "bad"}
    \/ r.edits = "empty"

\* C17: a malformed poll response (missing recordMap, activity entry without
\* value, node without start_time, empty edits list) is handled like "no
\* activity yet": it is never the answer, the attempt fails and the poller
\* goes on to the next attempt; polling is given up only at the attempt
\* ceiling.
C17_MalformedRetried ==
    /\ \A i \in 1..ppos :
            Malformed(pscript[i]) =>
                /\ ~(ppc = "returned" /\ i = ppos)
                /\ i = ppos =>
                        \/ ppc = "http" /\ pAttempt = ppos + pollRaised + 1
                        \/ ppc = "raised" /\ pAttempt = pollMax
    /\ ppc = "raised" => pAttempt = pollMax

C17_Witness ==
    /\ ppos = 2
    /\ pscript[1].activity = "novalue"
    /\ pscript[2].edits = "empty"
    /\ pscript[2].st >= trigger
    /\ pollRaised = 0
    /\ ppc = "http"
    /\ pAttempt = 3
    /\ lastClass = "IndexError"

\* the condition a response leaves the poller in
Condition(r) ==
    IF r.activity = "absent" THEN "no-activity"
    ELSE IF Stale(r) THEN "stale"
    ELSE IF Acceptable(r) THEN "found"
    ELSE IF Fresh(r) /\ r.edits # "empty" THEN "missing-link"
    ELSE "malformed"

\* the condition an exception class stands for
ConditionOf(cls) ==
    IF cls = "NoActivityError" THEN "no-activity"
    ELSE IF cls = "StaleExportError" THEN "stale"
    ELSE IF cls = "MissingExportLinkError" THEN "missing-link"
    ELSE IF cls \in {"KeyError", "ValueError", "IndexError"} THEN "malformed"
    ELSE IF cls = "RetryError" THEN "no-response"
    ELSE "none"

C7_SchedulerIsolation ==
    /\ \A t \in Tasks : invoked[t] <= 1
    /\ rpc \in {"returned", "raised"} =>
            \A t \in Tasks : invoked[t] = 1 /\ tstate[t] = "done"

\* C8: run and run_async return normally whatever the tasks raise,
\* SystemExit included.
C8_RunnerNeverRaises == rpc # "raised"

(***************************************************************************)
(* Properties of the export workflow                                       *)
(***************************************************************************)
\* run has gone past its call of poll_for_download_url (line 56)
PastPoll == epc \in {"download", "finish"} \/ (epc = "returned" /\ download_url # "NONE")

\* run has gone past its call of download_and_verify (line 66)
PastDownload == epc = "finish" \/ (epc = "returned" /\ downloaded_file # "NONE")

\* C14: in every run of the export workflow the trigger timestamp is
\* captured before the enqueue request is issued, and that captured value is
\* the one the poller compares notification start_time against: no enqueue
\* call is made before the capture, and once run is past its poll phase the
\* poller has been polling with the captured value.
C14_TimestampAuthority ==
    /\ (epc \notin {"off", "idle"} /\ export_trigger_timestamp = 0)
            => enqueueCalls = 0
    /\ PastPoll => (ppc # "idle" /\ trigger = export_trigger_timestamp)

\* C15 as stated: when the enqueue response has no taskId no poll request is
\* issued; for name == UnauthorizedError the trigger ends without retry,
\* after exactly one enqueue request, while a generic failure envelope is
\* propagated as an error (trigger_export_task raises).
C15_GenericEnvelopeRaises ==
    (tresponse # NoResponse /\ ~has_task_id(tresponse)) =>
        /\ pollCalls = 0
        /\ IF tresponse.name = "UnauthorizedError"
           THEN /\ tpc = "returned"
                /\ tresult = "NONE"
                /\ enqueueCalls = enqueueRaised + 1
           ELSE tpc = "raised"

\* C15 amended: when the enqueue response has no taskId, for
\* name == UnauthorizedError and for any other envelope alike,
\* trigger_export_task returns None: it does not raise, does not retry (the
\* answered enqueue call is the last one, and the only one when no call
\* before it raised) and no poll request is issued.  It raises only when
\* every enqueue call raised.
C15_EnvelopeReturnsNone ==
    /\ (tresponse # NoResponse /\ ~has_task_id(tresponse)) =>
            /\ tpc = "returned"
            /\ tresult = "NONE"
            /\ enqueueCalls = enqueueRaised + 1
            /\ pollCalls = 0
    /\ tpc = "raised" =>
            /\ tresponse = NoResponse
            /\ enqueueCalls = tMax
            /\ enqueueRaised = tMax

C15_Witness ==
    /\ tresponse = Enqueue("ABSENT", "SomeError")
    /\ tpc = "returned"
    /\ tresult = "NONE"
    /\ enqueueCalls = 1
    /\ enqueuePosts = 1
    /\ tMax > 1

\* C16: within one ExportFileTask.run the phases occur in the order
\* trigger, poll, download, each entered at most once; poll is entered only
\* after a task id was obtained and download only after a link was found.
C16_PhaseOrder ==
    /\ epc \in {"poll", "download", "finish"} =>
            (tpc = "returned" /\ task_id = tresult /\ Truthy(tresult))
    /\ epc \in {"download", "finish"} =>
            (ppc = "returned" /\ download_url = presult /\ Truthy(presult))

(***************************************************************************)
(* Properties of ExportFileDownloader                                      *)
(***************************************************************************)
\* C19: download_and_verify returns the destination path only if, after
\* streaming, the destination file exists and is non-empty; a download that
\* produced an empty file is reported as failed (None).
C19_VerifiedNonEmpty ==
    dresult = "path" => (file = "file" /\ written > 0)

\* C20: an exception raised while requesting or streaming the export is a
\* failed download attempt, retried up to max_retries attempts; after the
\* last failed attempt _download_file returns None and download_and_verify
\* returns None; neither raises.
C20_DownloadFailureRetried ==
    /\ dpc # "raised"
    /\ dpc = "returned" => dresult \in {"None", "path"}
    /\ dresult = "None" =>
            /\ dpc = "returned"
            /\ dAttempt = dMax
            /\ getCalls = dMax
    /\ dresult = "path" => (dpc = "returned" /\ written = body)
    /\ (dpc \in {"get", "stream"}) => (dAttempt \in 1..dMax /\ dresult = "none")

C20_Witness ==
    /\ dpc = "returned"
    /\ dresult = "None"
    /\ dMax = 2
    /\ dAttempt = 2
    /\ getCalls = 2
    /\ file = "file"
    /\ written < body

(***************************************************************************)
(* Properties of the session lifecycle of AsyncNotionClient                *)
(***************************************************************************)
\* C21: after close() has returned, the next request on the same client
\* re-creates the session with a new bootstrap handshake: as long as no
\* handshake has failed, no attempt of a request made after a close() fails
\* for want of credentials (AttributeError on the cleared config).
C21_ReauthAfterClose ==
    (closes > 0 /\ ~handshakeFailed) =>
        \A c \in Callers : cpc[c] # "nocreds"

\* C22: after a handshake attempt has failed and its error was raised, the
\* next attempt performs the handshake again with the original credentials:
\* the credentials are still held once the failed attempt is over, and no
\* attempt fails for want of them (the client's user has not called close()).
C22_RehandshakeAfterFailure ==
    (handshakeFailed /\ closes = 0 /\ kpc \in {"off", "idle"}) =>
        /\ \A c \in Callers : cpc[c] \in {"wait", "raised"} => config = "set"
        /\ \A c \in Callers : cpc[c] # "nocreds"

\* C23: close() can be called any number of times in a row, with or without
\* a live session: in every state the client can be in, what close() does
\* to the session, the connector and the config gives the same state when
\* it is done twice as when it is done once.
CloseState(st) ==
    [session |-> session_after_close(st.session),
     connector |-> connector_after_close(st.connector),
     config |-> config_after_close(st.config)]

ClientState == [session |-> session, connector |-> connector, config |-> config]

C23_CloseIdempotent ==
    /\ CloseState(CloseState(ClientState)) = CloseState(ClientState)
    /\ (kpc = "idle" /\ closes > 0 /\ \A c \in Callers : cpc[c] = "idle") =>
            ClientState = CloseState(ClientState)

\* close() has run twice in a row on a client whose session was live
C23_Witness ==
    /\ closes = 2
    /\ kpc = "idle"
    /\ session = "closed"
    /\ connector = "closed"
    /\ config = "none"

(***************************************************************************)
(* Properties of the construction of AsyncNotionClient                     *)
(***************************************************************************)
\* C24: credential validation runs at construction and a failed validation
\* prevents any network activity: a construction whose validation failed
\* has raised and assigns nothing, a construction assigns only after its
\* validation passed, every config whose credentials went out on the network
\* had passed validation in some construction, and while no validation has
\* passed there is no session and nothing has been sent.
C24_ValidationBeforeNetwork ==
    /\ \A t \in Threads :
          verdict[t] \notin {"none", "ok"} => npc[t] = "raised"
    /\ \A t \in Threads :
          npc[t] \in {"assign", "set"} => verdict[t] = "ok"
    /\ \A cfg \in sentWith :
          \E t \in Threads : verdict[t] = "ok" /\ arg[t] = cfg
    /\ (\A t \in Threads : verdict[t] # "ok") =>
          /\ self_session = "unset"
          /\ sentWith = {}
          /\ \A t \in Threads : used[t] # "sent"

\* a construction failed validation, the instance it left behind was asked
\* for a request, and nothing went out
C24_Witness ==
    \E t \in Threads :
        /\ npc[t] = "raised"
        /\ verdict[t] = "Invalid or missing Notion token_v2"
        /\ used[t] = "AttributeError"
        /\ sentWith = {}

\* a credential is there, has at least the least length and holds none of
\* the disallowed characters
WellFormed(x) ==
    x.present /\ x.len >= MIN_CREDENTIAL_LENGTH /\ ~x.suspicious

\* C25: validation fails whenever any one of the three credential fields
\* (workspace id, legacy session token, API token) is missing, shorter than
\* 10 characters or contains a disallowed character, and passes otherwise.
C25_AnyFieldRejected ==
    \A t \in Threads :
        verdict[t] # "none" =>
            (verdict[t] = "ok" <=>
                /\ WellFormed(arg[t].notion_space_id)
                /\ WellFormed(arg[t].notion_token_v2)
                /\ WellFormed(arg[t].notion_api_key))

\* C30: AsyncNotionClient is a thread-safe singleton: all constructions,
\* concurrent ones included, return the same instance, and once a
\* construction has succeeded (the class is initialised) no construction
\* changes the instance's config or its session (the session changes only
\* when a request is made on it).
C30_ThreadSafeSingleton ==
    [][/\ \A t, u \in Threads :
            (ret'[t] # 0 /\ ret'[u] # 0) => ret'[t] = ret'[u]
       /\ initialized =>
            /\ self_config' = self_config
            /\ self_session' # self_session => used' # used]_vars

C27_FanOutAndCollection ==
    /\ (rpc \in {"gathering", "collecting", "returned", "raised"} \/ collected > 0) =>
            \A t \in Tasks : tstate[t] # "new"
    /\ rpc \in {"returned", "raised"} => collected = NumTasks

\* C29: if the connectivity validation fails or raises when a TaskRunner is
\* constructed, the construction raises and no task's run is ever invoked:
\* a task is run only through a runner whose validation succeeded.
C29_NoRunWithoutConnectivity ==
    /\ connectivity # "True" =>
          /\ rpc \in {"new", "init_raised"}
          /\ \A t \in Tasks : invoked[t] = 0 /\ tstate[t] = "new"
    /\ rpc = "init_raised" =>
          /\ connectivity # "True"
          /\ rerror = IF connectivity = "raises" THEN "Exception" ELSE "RuntimeError"
    /\ (\E t \in Tasks : invoked[t] > 0) => connectivity = "True"

\* the connectivity check returned False and the construction raised
C29_Witness ==
    /\ connectivity = "False"
    /\ rpc = "init_raised"
    /\ rerror = "RuntimeError"
    /\ \A t \in Tasks : invoked[t] = 0

(***************************************************************************)
(* Properties of the result of ExportFileTask.run                          *)
(***************************************************************************)
\* C28: ExportFileTask.run never raises: it returns the downloaded file's
\* path when all three phases succeed (each of its three calls gave it a
\* result it accepts) and None when any phase fails or raises.
C28_PathOrNone ==
    epc = "returned" =>
        /\ eresult \in {"None", "path"}
        /\ eresult = "path" <=>
              /\ Truthy(task_id)
              /\ Truthy(download_url)
              /\ Truthy(downloaded_file)

(***************************************************************************)
(* Properties of the run summary of TaskRunner                             *)
(***************************************************************************)
\* the tasks whose run raised
Raising == {t \in Tasks : behaviour[t] # "ok"}

\* C31: after run or run_async over any task list, successful_tasks +
\* failed_tasks equals the number of tasks, every task is counted exactly
\* once, and a task is counted as failed if and only if its run raised:
\* when the scheduler's call is over, every task's outcome has been looked
\* at once and failed_tasks is the number of tasks whose run raised.
C31_SummaryCounts ==
    /\ collected = successful_tasks + failed_tasks
    /\ rpc \in {"returned", "raised"} =>
          /\ collected = NumTasks
          /\ successful_tasks + failed_tasks = NumTasks
          /\ failed_tasks = Cardinality(Raising)

(***************************************************************************)
(* Properties of the cursor chaining of fetch_rows                         *)
(***************************************************************************)
\* the response carries a cursor: a next_cursor that is there, is not null
\* and is not the empty string
CarriesCursor(data) == data.cursor \notin {"ABSENT", "NULL", ""}

\* the response is a page fetch_rows accepts: no error envelope, results there
WellFormedPage(data) == ~error_envelope(data) /\ data.hasResults

PollMeasure ==
    IF ppc \in {"returned", "raised"} THEN 0
    ELSE IF ppc = "idle" THEN pollMax * DEFAULT_MAX_RETRIES + 1
    ELSE (pollMax - pAttempt) * DEFAULT_MAX_RETRIES
         + (DEFAULT_MAX_RETRIES - pInner) + 1

C38_PostsBounded ==
    /\ httpPosts <= queries * max_retries * DEFAULT_MAX_RETRIES
    /\ (pos = 0 /\ fpc \in {"http", "post_raised"}) =>
          /\ outerAttempt <= max_retries
          /\ innerAttempt <= DEFAULT_MAX_RETRIES
          /\ httpPosts <= (outerAttempt - 1) * DEFAULT_MAX_RETRIES
                          + innerAttempt
    /\ (pos = 0 /\ ferror = "RetryError") =>
          /\ fpc = "raised"
          /\ queries = 1
          /\ outerAttempt = max_retries
          /\ innerAttempt = DEFAULT_MAX_RETRIES
          /\ httpPosts <= max_retries * DEFAULT_MAX_RETRIES
    /\ (pos = 0 /\ fpc = "post_raised" /\ outerAttempt = max_retries) =>
          ENABLED do_request_raised

\* every attempt of the first page was sent and failed: 2 * 3 POSTs, and
\* fetch_rows raised
C38_Witness ==
    /\ fpc = "raised"
    /\ ferror = "RetryError"
    /\ pos = 0
    /\ max_retries = 2
    /\ httpPosts = 2 * DEFAULT_MAX_RETRIES

(***************************************************************************)
(* Properties of the classification of a notification response             *)
(***************************************************************************)
\* C39: a poll attempt classifies the first entry of the activity map only:
\* its outcome is what the first entry and the trigger timestamp give, and
\* any other map with the same first entry, whatever follows it, has the
\* same outcome.
C39_FirstEntryOnly ==
    (apc = "done" /\ activity_map # <<>>) =>
        /\ attempt_outcome.class = classify(activity_map[1], trigger_ts)
        /\ \A m \in ActivityMaps :
              (m # <<>> /\ m[1] = activity_map[1]) =>
                  try_get_download_url(m, trigger_ts) = attempt_outcome

\* a stale first entry followed by a fresh entry with a link: the attempt
\* is stale
C39_Witness ==
    /\ apc = "done"
    /\ trigger_ts = 1000
    /\ Len(activity_map) = 2
    /\ activity_map[1] = Notification("node", "int", 500, "link", "u1")
    /\ activity_map[2] = Notification("node", "int", 1300, "link", "u2")
    /\ attempt_outcome.class = "StaleExportError"

(***************************************************************************)
(* Properties of NotionPageUpdateTask.run                                  *)
(***************************************************************************)
\* a response that makes fetch_rows fail: an error envelope, or no results
Rejected(data) == error_envelope(data) \/ ~data.hasResults

\* C35: the page-update task sends its PATCH only after fetch_rows has
\* returned: the total it writes is the total of every page fetch_rows
\* received; when a page request failed, hit an error envelope or was
\* malformed the task raises the error of fetch_rows and no PATCH was sent.
C35_PatchOnlyAfterCompleteFetch ==
    /\ (patches > 0 \/ upc \in {"patch", "returned"}) =>
          /\ fpc = "returned"
          /\ ferror = "none"
          /\ rows = all_results
          /\ rows = Flatten(SubSeq(script, 1, pos))
          /\ total_value = calculate_total_for_column(rows)
          /\ \A i \in 1..pos : ~Rejected(script[i])
    /\ patched_value # -1 => patched_value = total_value /\ patches > 0
    /\ (upc # "fetching" /\ fpc = "raised") =>
          /\ upc = "raised"
          /\ uerror = ferror
          /\ patches = 0
          /\ patched_value = -1
    /\ (\E i \in 1..pos : Rejected(script[i])) =>
          /\ patches = 0
          /\ upc \in {"fetching", "raised"}

\* the second page was an error envelope: the task raised after one page
\* of rows and sent nothing
C35_Witness ==
    /\ upc = "raised"
    /\ uerror = "ClientError"
    /\ pos = 2
    /\ all_results = <<1>>
    /\ error_envelope(script[2])
    /\ patches = 0

(***************************************************************************)
(* Properties of ExportFileWatcher and GoogleDriveUploadTask               *)
(***************************************************************************)
\* name starts with pre
HasPrefix(name, pre) ==
    /\ Len(name) >= Len(pre)
    /\ \A i \in 1..Len(pre) : name[i] = pre[i]

\* ceil(a / b) for a >= 0 and b > 0
Ceil(a, b) == (a + b - 1) \div b

\* C36: wait_for_file always terminates.  A check that finds names starting
\* with the prefix returns one of them at once; a call that finds none
\* raises SystemExit after ceil(timeout_seconds / interval) checks, never
\* more; the path returned is a name of the directory that starts with the
\* prefix.
C36_WatcherTerminates ==
    /\ [](/\ checks <= Ceil(timeout_seconds, interval)
          /\ wpc = "raised" =>
                /\ checks = Ceil(timeout_seconds, interval)
                /\ wresult = NoPath
          /\ wpc = "returned" =>
                /\ HasPrefix(wresult, prefix)
                /\ wresult \in listing
          /\ wpc # "returned" => wresult = NoPath)
    /\ [][(checks' = checks + 1
            /\ \E f \in listing : HasPrefix(f, prefix))
          => (wpc' = "returned" /\ wresult' \in listing)]_vars
    /\ [][(checks' = checks + 1
            /\ ~ \E f \in listing : HasPrefix(f, prefix))
          => wpc' = "sleep"]_vars
    /\ <>(wpc \in {"returned", "raised"})

\* the second check found the file that had appeared meanwhile, beside a
\* file whose name only contains the prefix
C36_Witness ==
    /\ wpc = "returned"
    /\ checks = 2
    /\ prefix = <<"n", "e">>
    /\ wresult = <<"n", "e", "1">>
    /\ <<"o", "n", "e">> \in directory

\* no file with the prefix came: SystemExit after ceil(3 / 2) = 2 checks
C36_TimeoutWitness ==
    /\ wpc = "raised"
    /\ timeout_seconds = 3
    /\ interval = 2
    /\ checks = 2

Authenticated == session = "open" /\ headersSet

\* the calls on the client follow one another: at most one request or
\* close() is under way
Sequential ==
    Cardinality({c \in Callers : cpc[c] \notin {"idle", "done", "raised"}})
        + (IF kpc = "sleeping" THEN 1 ELSE 0) <= 1

\* C34: once a handshake has succeeded, every later request on the client
\* is sent on that session, with its headers, and makes no further
\* handshake for as long as the session has not been closed; in a run whose
\* calls follow one another the number of handshakes is at most one plus
\* the number of close() calls.
C34_SessionReuse ==
    /\ ([]Sequential => [](handshakes <= 1 + closes))
    /\ [][Authenticated => handshakes' = handshakes]_vars
    /\ [][\A c \in Callers :
            (Authenticated /\ cpc[c] \in {"idle", "wait"} /\ cpc'[c] # cpc[c])
                => /\ cpc'[c] = "request"
                   /\ reqAuth'[c]
                   /\ reqGen'[c] = handshakes
                   /\ session' = session]_vars

\* the first caller's request made the handshake and was answered; the
\* second caller's request is on the same session, with no new handshake
C34_Witness ==
    /\ cpc[1] = "done"
    /\ cpc[2] = "request"
    /\ reqAuth[2]
    /\ reqGen[2] = 1
    /\ handshakes = 1
    /\ Authenticated
    /\ closes = 0

(***************************************************************************)
(* Properties of HTTPClientMixin._make_parallel_requests                   *)
(***************************************************************************)
InFlight == {i \in Requests : qpc[i] = "inflight"}

\* C40: _make_parallel_requests never has more than max_concurrent requests
\* in flight; what it returns holds the response of the i-th request in
\* place i, whatever the order the requests finished in; and it raises,
\* returning no list, when a request has failed after its retries, and
\* only then.
C40_ParallelRequests ==
    /\ Cardinality(InFlight) <= max_concurrent
    /\ gpc \notin {"off", "idle"} =>
          semaphore = max_concurrent - Cardinality(InFlight)
    /\ gpc = "returned" =>
          /\ Len(gresult) = NumRequests
          /\ \A i \in Requests : qpc[i] = "done" /\ gresult[i] = responses[i]
    /\ gpc = "raised" =>
          /\ gresult = <<>>
          /\ \E i \in Requests :
                qpc[i] = "raised" /\ qAttempt[i] = DEFAULT_MAX_RETRIES
    /\ (\E i \in Requests : qpc[i] = "raised") =>
          gpc \in {"gathering", "raised"}
    /\ (gpc = "gathering" /\ \E i \in Requests : qpc[i] = "raised") =>
          ENABLED gather_raised

\* the requests finished in another order than given, with different
\* responses, two at a time; the list is in the order given
C40_Witness ==
    /\ gpc = "returned"
    /\ max_concurrent = 2
    /\ completed = <<2, 1, 3>>
    /\ gresult = <<"a", "b", "a">>

====
